---------------------------- MODULE Spec2Model ----------------------------
(***************************************************************************)
(* Panasonic H&C Bluetooth controller: the wire codec (panasonic_hc_proto), *)
(* the device session (panasonic_hc.PanasonicHC) and the reconnect          *)
(* supervisor (__init__).                                                   *)
(*                                                                          *)
(* Conventions.  A Python bytes object is a sequence of integers 0..255     *)
(* (Python index i is TLA+ index i+1).  An optional value (None or v) is    *)
(* the empty sequence or <<v>>.  A call that can raise returns a record     *)
(* whose field exc names the exception class ("none" when it returned).     *)
(* Temperatures are carried in half degrees (the float (b - 70) / 2 is the  *)
(* integer b - 70) and consumption values in tenths (the float n / 10 is    *)
(* the integer n): both divisions are exact in binary floating point for    *)
(* the byte ranges involved, so the integers order and compare as the       *)
(* floats do.  time.time() is an integer number of seconds.                 *)
(***************************************************************************)
EXTENDS Integers, Sequences, FiniteSets, TLC

VARIABLES
    \* SpecCodec
    cbuf,       \* the buffer the caller holds
    chist,      \* the codec calls made so far: [op, arg, exc, msg, ret, after]
    \* SpecWire
    wbytes,     \* the bytes at hand: a packet stream, a frame
    wcall,      \* the last call: [op, arg, exc, msg, ...its result]
    \* the clock and the BLE transport (BleakClient)
    now,        \* time.time()
    connected,  \* BleakClient.is_connected
    subscribed, \* start_notify is in effect on the current link
    \* PanasonicHC
    status,                  \* self.status (None or a Status)
    curhour,                 \* self.curhour
    curindex,                \* self.curindex
    consumption,             \* self.consumption, slots 0..47
    last_update,             \* self.last_update
    last_temp,               \* self._last_temp
    last_temp_time,          \* self._last_temp_time
    last_notification_time,  \* self._last_notification_time
    \* what on_notification did with the last frame (bookkeeping)
    nlast,      \* [data, at, exc, msg, events, callbacks]
    accepted,   \* the last reading published unsubstituted: <<>> or <<value, time>>
    \* the config entry's options
    cfg,        \* [notification_timeout, consumption_interval,
                \*  status_update_interval, reconnect_base_delay, reconnect_max_delay]
    \* the background task _async_run_thermostat
    pc,         \* where the task stands (the await it is suspended at)
    attempt,    \* _async_reconnect_thermostat: attempt
    delay,      \* _async_reconnect_thermostat: delay
    wake,       \* the time the asyncio.sleep the task is in ends
    gs_now,     \* async_get_status: now
    scmd,       \* async_get_status: the command being written
    ctx,        \* the try block the task is in: "reconnect" or "poll"
    \* PanasonicHC._lock and the transport's write characteristic
    lock,       \* who holds self._lock: "free", "sup" or "user"
    lockq,      \* the tasks waiting for self._lock, first come first
    inflight,   \* the tasks with a write_gatt_char awaiting completion
    wlast,      \* the last write_gatt_char issued: <<>> or <<[by, cmd, parcel, data, link]>>
    \* the other caller of the session: the climate entity's service call
    \* async_set_temperature, or async_unload_entry
    upc,        \* where the call stands: "idle", "w_lock" or "w_write"; the
                \* unload: "ul_platforms", "ul_disc", "unloaded" or "ul_error"
    ucall,      \* the calls made: [temp, built, result, msg]
    \* bookkeeping
    signals,    \* the last dispatcher signals sent, in order
    waits,      \* the backoff waits of the current connect-with-retry run
    clast,      \* the last async_connect: <<>> or <<[attempt, result, reset]>>, reset
                \* the time an async_connect last set _last_notification_time
    oplast,     \* how the session operation awaited last ended: <<>> or
                \* <<[op, exc, msg]>>, exc = "none" when it returned
    drops       \* the number of times the link was lost

codecVars == <<cbuf, chist>>
wireVars == <<wbytes, wcall>>
linkVars == <<now, connected, subscribed>>
sessVars == <<status, curhour, curindex, consumption, last_update, last_temp,
              last_temp_time, last_notification_time>>
noteVars == <<nlast, accepted>>
supVars == <<pc, attempt, delay, wake, gs_now, scmd, ctx>>
writeVars == <<lock, lockq, inflight, wlast>>
userVars == <<upc, ucall>>
logVars == <<signals, waits, clast, oplast, drops>>
sysVars == <<cfg, supVars, writeVars, userVars, logVars>>
vars == <<codecVars, wireVars, linkVars, sessVars, noteVars, sysVars>>

---------------------------------------------------------------------------
(* Bounds of the model.                                                    *)

\* longest raw buffer handed to the codec under SpecCodec
MaxBufLen == 4
\* number of codec calls recorded under SpecCodec
MaxCodecOps == 3
\* the hours 0..MaxHour and ring positions 0..MaxIndex the device reports,
\* and the most values it sends in one batch
MaxHour == 23
MaxIndex == 47
MaxBatchLen == 6
\* the clock runs from 1 to MaxTime
MaxTime == 14

---------------------------------------------------------------------------
(* Byte arithmetic.                                                        *)

RECURSIVE BitXor(_, _, _)
BitXor(a, b, n) ==
    IF n = 0 THEN 0
    ELSE (((a % 2) + (b % 2)) % 2) + 2 * BitXor(a \div 2, b \div 2, n - 1)

NibbleXor == [a \in 0..15, b \in 0..15 |-> BitXor(a, b, 4)]

\* Python's a ^ b on two bytes
Xor(a, b) ==
    (16 * NibbleXor[a \div 16, b \div 16]) + NibbleXor[a % 16, b % 16]

\* data[lo:hi] of Python for 0 <= lo <= hi: the slice ends with the data
Slice(data, lo, hi) ==
    LET h == IF hi > Len(data) THEN Len(data) ELSE hi
    IN  IF h <= lo THEN <<>> ELSE SubSeq(data, lo + 1, h)

\* F applied to the value of x: x is evaluated once, whatever the number of
\* uses F makes of it
Let(x, F(_)) == CHOOSE r \in {F(v) : v \in {x}} : TRUE

\* (data[lo] + ... + data[hi]) & 255, summed by halves (the additions are
\* associative modulo 256)
RECURSIVE SumRange(_, _, _)
SumRange(data, lo, hi) ==
    IF lo > hi THEN 0
    ELSE IF lo = hi THEN data[lo] % 256
    ELSE LET m == (lo + hi) \div 2
         IN  (SumRange(data, lo, m) + SumRange(data, m + 1, hi)) % 256

\* data[lo] ^ ... ^ data[hi], by halves
RECURSIVE XorRange(_, _, _)
XorRange(data, lo, hi) ==
    IF lo > hi THEN 0
    ELSE IF lo = hi THEN data[lo]
    ELSE LET m == (lo + hi) \div 2
         IN  Xor(XorRange(data, lo, m), XorRange(data, m + 1, hi))

---------------------------------------------------------------------------
(* Framing codec.                                                          *)

OBFUSCATION_KEY == 105
FIRST_BYTE_KEY == 202

_cksum(data) == SumRange(data, 1, Len(data))

\* a forward chain: data[x] ^= data[x - 1] for x = 1 .. len-1, in this order,
\* data[0] being `first`; the loop leaves first ^ a[1] ^ ... ^ a[x] in data[x]
ChainFrom(a, first) ==
    Slice([i \in 1..Len(a) |->
             IF i = 1 THEN first ELSE Xor(first, XorRange(a, 2, i))], 0, Len(a))

\* as _decode, un-chaining from index 1 upwards: each byte is XORed
\* with its already un-chained predecessor
_decode_forward(data) ==
    IF Len(data) = 0
    THEN [exc |-> "IndexError", msg |-> "list index out of range",
          ret |-> <<>>, data |-> data]
    ELSE LET n == Len(data)
             a == [x \in 1..n |-> Xor(data[x], OBFUSCATION_KEY)]
             b == ChainFrom(Slice(a, 0, n), a[1])
             c == [x \in 1..n |-> IF x = 1 THEN Xor(b[1], FIRST_BYTE_KEY) ELSE b[x]]
         IN  Let(Slice(c, 0, n), LAMBDA d :
                 IF _cksum(Slice(d, 1, n - 1)) # d[n]
                 THEN [exc |-> "ValueError", msg |-> "Bad Checksum",
                       ret |-> <<>>, data |-> data]
                 ELSE [exc |-> "none", msg |-> "", ret |-> d, data |-> data])

\* _decode(data): the result, and the caller's buffer after the call (the
\* function works on list(data), a copy)
_decode(data) ==
    IF Len(data) = 0
    THEN [exc |-> "IndexError", msg |-> "list index out of range",
          ret |-> <<>>, data |-> data]
    ELSE LET n == Len(data)
             a == [x \in 1..n |-> Xor(data[x], OBFUSCATION_KEY)]
             b == [x \in 1..n |-> IF x = 1 THEN a[x] ELSE Xor(a[x], a[x - 1])]
             c == [x \in 1..n |-> IF x = 1 THEN Xor(b[1], FIRST_BYTE_KEY) ELSE b[x]]
         IN  Let(Slice(c, 0, n), LAMBDA d :
                 IF _cksum(Slice(d, 1, n - 1)) # d[n]
                 THEN [exc |-> "ValueError", msg |-> "Bad Checksum",
                       ret |-> <<>>, data |-> data]
                 ELSE [exc |-> "none", msg |-> "", ret |-> d, data |-> data])

_encode(data) ==
    IF Len(data) = 0
    THEN [exc |-> "IndexError", msg |-> "list assignment index out of range",
          ret |-> <<>>, data |-> data]
    ELSE LET n == Len(data)
         IN  Let([data EXCEPT ![n] = _cksum(Slice(data, 1, n - 1))], LAMBDA a :
             Let(ChainFrom(a, Xor(a[1], FIRST_BYTE_KEY)), LAMBDA b :
                 [exc |-> "none", msg |-> "",
                  ret |-> Slice([x \in 1..n |-> Xor(b[x], OBFUSCATION_KEY)], 0, n),
                  data |-> data]))

---------------------------------------------------------------------------
(* Enumerations.  An Enum is the function from member name to value;       *)
(* E(value) of Python is the lookup by value, which raises ValueError for   *)
(* a value no member has.                                                   *)

MODE ==
    [heat |-> 1, cool |-> 2, fan_only |-> 3, dry |-> 4, auto |-> 5]

FANSPEED ==
    [auto |-> 2, high |-> 3, medium |-> 4, low |-> 5]

COMPONENT ==
    [I_UNIT1 |-> 1, O_UNIT1 |-> 9, ALL_UNITS |-> 247, APP |-> 249,
     BLE_MODULE_UART |-> 254]

OPERATION ==
    [SET |-> 0, SET_RES |-> 1, REQ |-> 2, REQ_RES |-> 3, NOTIFY |-> 4]

HasValue(enum, v) == \E n \in DOMAIN enum : enum[n] = v

NameOf(enum, v) == CHOOSE n \in DOMAIN enum : enum[n] = v

---------------------------------------------------------------------------
(* Packet model.  A byte stream (io.BytesIO) is the pair of its bytes and   *)
(* the number of bytes read so far.                                         *)

PTYPE_STATUS == 129
PTYPE_OUTDOOR_TEMP == 33
PTYPE_CONSUMPTION == 105
CONSUMPTION_PREFIX == <<2, 0, 19>>
TEMP_OFFSET == 70

Raise(exc, msg) == [exc |-> exc, msg |-> msg]

\* PanasonicBLEPacket(ptype, pdata)
PanasonicBLEPacket(ptype, pdata) ==
    [exc |-> "none", msg |-> "",
     pkt |-> [kind |-> "Packet", ptype |-> ptype, pdata |-> pdata]]

\* (pdata[i] >> 5) & 7
Bits5to7(b) == (b \div 32) % 8

\* as PanasonicBLEPacketStatus with the fan speed looked up in an enum
\* that numbers the speeds low = 2 .. auto = 5
FANSPEED_reversed ==
    [low |-> 2, medium |-> 3, high |-> 4, auto |-> 5]

\* PanasonicBLEPacketStatus(ptype, pdata): the statements of __init__ in
\* order, the first that raises deciding the exception
StatusFields(ptype, pdata, fanenum) ==
    LET n == Len(pdata)
    IN  IF n < 1 THEN Raise("IndexError", "index out of range")
        ELSE IF ~HasValue(MODE, Bits5to7(pdata[1]))
        THEN Raise("ValueError", "not a valid MODE")
        ELSE IF n < 5 THEN Raise("IndexError", "index out of range")
        ELSE IF ~HasValue(fanenum, Bits5to7(pdata[2]))
        THEN Raise("ValueError", "not a valid FANSPEED")
        ELSE IF n < 6 THEN Raise("IndexError", "index out of range")
        ELSE [exc |-> "none", msg |-> "",
              pkt |-> [kind |-> "Status", ptype |-> ptype, pdata |-> pdata,
                       power |-> pdata[1] % 2,
                       mode |-> NameOf(MODE, Bits5to7(pdata[1])),
                       temp |-> pdata[5] - TEMP_OFFSET,
                       fanspeed |-> NameOf(fanenum, Bits5to7(pdata[2])),
                       powersave |-> pdata[n - 5],
                       curtemp |-> pdata[6] - TEMP_OFFSET]]

PanasonicBLEPacketStatus_reversed(ptype, pdata) ==
    StatusFields(ptype, pdata, FANSPEED_reversed)

\* as PanasonicBLEPacketStatus, a mode or fan speed no enum has read as auto
PanasonicBLEPacketStatus_lenient(ptype, pdata) ==
    IF Len(pdata) >= 6 /\ (~HasValue(MODE, Bits5to7(pdata[1]))
                             \/ ~HasValue(FANSPEED, Bits5to7(pdata[2])))
    THEN [exc |-> "none", msg |-> "",
          pkt |-> [kind |-> "Status", ptype |-> ptype, pdata |-> pdata,
                   power |-> pdata[1] % 2, mode |-> "auto",
                   temp |-> pdata[5] - TEMP_OFFSET, fanspeed |-> "auto",
                   powersave |-> pdata[Len(pdata) - 5],
                   curtemp |-> pdata[6] - TEMP_OFFSET]]
    ELSE StatusFields(ptype, pdata, FANSPEED)

PanasonicBLEPacketStatus(ptype, pdata) ==
    StatusFields(ptype, pdata, FANSPEED)

\* PanasonicBLEPacketOutdoorTemp(ptype, pdata): __init__(self) takes no
\* further argument, so the call with two raises before any field is set
PanasonicBLEPacketOutdoorTemp(ptype, pdata) ==
    Raise("TypeError", "__init__() takes 1 positional argument but 3 were given")

\* the two-byte values of a consumption batch, in tenths
ConsumptionValues(pdata) ==
    Slice([i \in 1..((Len(pdata) - 4) \div 2) |->
             (pdata[3 + 2 * i] * 256) + (pdata[4 + 2 * i] % 256)],
          0, (Len(pdata) - 4) \div 2)

\* as PanasonicBLEPacketConsumption, a batch placed at its sub-kind's number
\* instead of at four slots per sub-kind
PanasonicBLEPacketConsumption_unscaled(ptype, pdata) ==
    LET n == Len(pdata)
        base == [kind |-> "Consumption", ptype |-> ptype, pdata |-> pdata,
                 hour |-> <<>>, index |-> <<>>, pos |-> <<>>, values |-> <<>>]
        ok(p) == [exc |-> "none", msg |-> "", pkt |-> p]
    IN  IF n < 4 THEN Raise("IndexError", "index out of range")
        ELSE IF pdata[4] = 1
        THEN IF n < 9 THEN Raise("IndexError", "index out of range")
             ELSE ok([base EXCEPT !.hour = <<pdata[9]>>])
        ELSE IF pdata[4] = 2
        THEN IF n < 12 THEN Raise("IndexError", "index out of range")
             ELSE ok([base EXCEPT !.index = <<pdata[12]>>])
        ELSE IF pdata[4] >= 3 /\ pdata[4] <= 14
        THEN IF (n - 4) % 2 = 1 THEN Raise("IndexError", "index out of range")
             ELSE ok([base EXCEPT !.pos = <<pdata[4] - 3>>,
                                  !.values = <<ConsumptionValues(pdata)>>])
        ELSE ok(base)

\* PanasonicBLEPacketConsumption(ptype, pdata)
PanasonicBLEPacketConsumption(ptype, pdata) ==
    LET n == Len(pdata)
        base == [kind |-> "Consumption", ptype |-> ptype, pdata |-> pdata,
                 hour |-> <<>>, index |-> <<>>, pos |-> <<>>, values |-> <<>>]
        ok(p) == [exc |-> "none", msg |-> "", pkt |-> p]
    IN  IF n < 4 THEN Raise("IndexError", "index out of range")
        ELSE IF pdata[4] = 1
        THEN IF n < 9 THEN Raise("IndexError", "index out of range")
             ELSE ok([base EXCEPT !.hour = <<pdata[9]>>])
        ELSE IF pdata[4] = 2
        THEN IF n < 12 THEN Raise("IndexError", "index out of range")
             ELSE ok([base EXCEPT !.index = <<pdata[12]>>])
        ELSE IF pdata[4] >= 3 /\ pdata[4] <= 14
        THEN IF (n - 4) % 2 = 1 THEN Raise("IndexError", "index out of range")
             ELSE ok([base EXCEPT !.pos = <<(pdata[4] - 3) * 4>>,
                                  !.values = <<ConsumptionValues(pdata)>>])
        ELSE ok(base)

\* PanasonicBLEPacket.parse(fd): the packet read at offset `at` of `data`,
\* and the offset after it
PacketParse(data, at) ==
    IF at + 2 > Len(data)
    THEN [exc |-> "IndexError", msg |-> "index out of range", at |-> Len(data)]
    ELSE LET ptype == data[at + 1]
             plen == data[at + 2]
             end == IF at + 2 + plen > Len(data) THEN Len(data) ELSE at + 2 + plen
         IN  Let(Slice(data, at + 2, end), LAMBDA pdata :
             Let(IF ptype = PTYPE_STATUS
                 THEN PanasonicBLEPacketStatus(ptype, pdata)
                 ELSE IF ptype = PTYPE_OUTDOOR_TEMP
                 THEN PanasonicBLEPacketOutdoorTemp(ptype, pdata)
                 ELSE IF ptype = PTYPE_CONSUMPTION
                         /\ Slice(pdata, 0, 3) = CONSUMPTION_PREFIX
                 THEN PanasonicBLEPacketConsumption(ptype, pdata)
                 ELSE PanasonicBLEPacket(ptype, pdata), LAMBDA r :
                 IF r.exc = "none"
                 THEN [exc |-> "none", msg |-> "", pkt |-> r.pkt, at |-> end]
                 ELSE [exc |-> r.exc, msg |-> r.msg, at |-> end]))

\* PanasonicBLEPacket.encode()
PacketEncode(pkt) == <<pkt.ptype, Len(pkt.pdata)>> \o pkt.pdata

---------------------------------------------------------------------------
(* Parcel model.                                                            *)

PARCEL_MARKER == 17

\* as ParsePackets, each packet put in front of the ones read before it
RECURSIVE ParsePackets_reversed(_, _, _, _)
ParsePackets_reversed(data, at, k, acc) ==
    IF k = 0 THEN [exc |-> "none", msg |-> "", packets |-> acc]
    ELSE Let(PacketParse(data, at), LAMBDA r :
             IF r.exc # "none" THEN Raise(r.exc, r.msg)
             ELSE Let(<<r.pkt>> \o acc, LAMBDA acc1 :
                      ParsePackets_reversed(data, r.at, k - 1, acc1)))

\* the list comprehension of PanasonicBLEParcel.parse: k more packets read
\* from offset `at`; the first packet that raises ends the parse
RECURSIVE ParsePackets(_, _, _, _)
ParsePackets(data, at, k, acc) ==
    IF k = 0 THEN [exc |-> "none", msg |-> "", packets |-> acc]
    ELSE Let(PacketParse(data, at), LAMBDA r :
             IF r.exc # "none" THEN Raise(r.exc, r.msg)
             ELSE Let(Append(acc, r.pkt), LAMBDA acc1 :
                      ParsePackets(data, r.at, k - 1, acc1)))

\* PanasonicBLEParcel.parse(data)
ParcelParse(data) ==
    Let(_decode(data), LAMBDA d :
        IF d.exc # "none" THEN Raise(d.exc, d.msg)
        ELSE Let(d.ret, LAMBDA b :
            LET n == Len(b)
            IN  IF b[1] # PARCEL_MARKER THEN Raise("ValueError", "Bad packet")
                ELSE IF n < 2 THEN Raise("IndexError", "index out of range")
                ELSE IF ~HasValue(COMPONENT, b[2])
                THEN Raise("ValueError", "not a valid COMPONENT")
                ELSE IF n < 3 THEN Raise("IndexError", "index out of range")
                ELSE IF ~HasValue(COMPONENT, b[3])
                THEN Raise("ValueError", "not a valid COMPONENT")
                ELSE IF n < 4 THEN Raise("IndexError", "index out of range")
                ELSE IF ~HasValue(OPERATION, b[4])
                THEN Raise("ValueError", "not a valid OPERATION")
                ELSE IF n < 5 THEN Raise("IndexError", "index out of range")
                ELSE Let(ParsePackets(b, 5, b[5], <<>>), LAMBDA ps :
                         IF ps.exc # "none" THEN Raise(ps.exc, ps.msg)
                         ELSE [exc |-> "none", msg |-> "",
                               parcel |-> [src |-> NameOf(COMPONENT, b[2]),
                                           dst |-> NameOf(COMPONENT, b[3]),
                                           op |-> NameOf(OPERATION, b[4]),
                                           packets |-> ps.packets]])))

RECURSIVE EncodePackets(_, _)
EncodePackets(packets, i) ==
    IF i > Len(packets) THEN <<>>
    ELSE PacketEncode(packets[i]) \o EncodePackets(packets, i + 1)

\* as ParcelEncode, the packet count written as the count of payload bytes
ParcelEncode_bytecount(parcel) ==
    Let(<<PARCEL_MARKER, COMPONENT[parcel.src], COMPONENT[parcel.dst],
          OPERATION[parcel.op], Len(EncodePackets(parcel.packets, 1))>>
        \o EncodePackets(parcel.packets, 1) \o <<0>>, LAMBDA raw : _encode(raw).ret)

\* PanasonicBLEParcel.encode()
ParcelEncode(parcel) ==
    Let(<<PARCEL_MARKER, COMPONENT[parcel.src], COMPONENT[parcel.dst],
          OPERATION[parcel.op], Len(parcel.packets)>>
        \o EncodePackets(parcel.packets, 1) \o <<0>>, LAMBDA raw : _encode(raw).ret)

---------------------------------------------------------------------------
(* Command builders.  A temperature argument is given in tenths of a degree *)
(* (22.0 is 220), so that values off the half-degree grid can be passed.    *)

Parcel(src, dst, op, packets) ==
    [src |-> src, dst |-> dst, op |-> op, packets |-> packets]

GenericPacket(ptype, pdata) == PanasonicBLEPacket(ptype, pdata).pkt

Built(parcel) == [exc |-> "none", msg |-> "", parcel |-> parcel]

\* int(x) for the rational n / d, d > 0: truncation towards zero
IntTrunc(n, d) == IF n >= 0 THEN n \div d ELSE 0 - ((0 - n) \div d)

\* int(temp * 2 + 70)
TempByte(temp10) == IntTrunc((temp10 * 2) + (TEMP_OFFSET * 10), 10)

\* PanasonicBLETemp(temp): bytes([9, 0, temp, 0]) raises ValueError for a
\* value outside range(0, 256)
PanasonicBLETemp(temp10) ==
    LET t == TempByte(temp10)
    IN  IF t < 0 \/ t > 255
        THEN Raise("ValueError", "bytes must be in range(0, 256)")
        ELSE Built(Parcel("APP", "I_UNIT1", "SET",
                          <<GenericPacket(76, <<9, 0, t, 0>>),
                            GenericPacket(76, <<10, 0, t, 0>>)>>))

\* PanasonicBLEStatusReq()
PanasonicBLEStatusReq ==
    Built(Parcel("APP", "I_UNIT1", "REQ",
                 <<GenericPacket(PTYPE_STATUS, <<4, 0, 14>>)>>))

\* PanasonicBLEPowerReq(): x in range(1, 3)
PanasonicBLEPowerReq ==
    Built(Parcel("APP", "BLE_MODULE_UART", "REQ",
                 [x \in 1..2 |->
                    GenericPacket(PTYPE_CONSUMPTION, <<2, 0, 19, x, 12>>)]))

\* PanasonicBLEPowerReqHour(): x in range(3, 15)
PanasonicBLEPowerReqHour ==
    Built(Parcel("APP", "BLE_MODULE_UART", "REQ",
                 [i \in 1..12 |->
                    GenericPacket(PTYPE_CONSUMPTION, <<2, 0, 19, i + 2, 12>>)]))

---------------------------------------------------------------------------
(* Device session: PanasonicHC.                                             *)

CONSUMPTION_SLOTS == 48
HOURS_PER_DAY == 24
\* the constructor's defaults, which the integration never overrides:
\* temp_change_threshold = 10.0 degrees (in half degrees),
\* temp_validation_window = 10.0 seconds, temp_validation_enabled = True
temp_change_threshold == 20
temp_validation_window == 10
temp_validation_enabled == TRUE
\* the update callbacks registered on the session: the climate entity's and
\* the energy sensor's
N_UPDATE_CALLBACKS == 2

Abs(x) == IF x < 0 THEN 0 - x ELSE x

\* the fields on_notification works on, with what it has done so far
Working ==
    [status |-> status, curhour |-> curhour, curindex |-> curindex,
     consumption |-> consumption, last_temp |-> last_temp,
     last_temp_time |-> last_temp_time, accepted |-> accepted,
     do_callback |-> FALSE, exc |-> "none", msg |-> "", events |-> <<>>]

\* the index on_notification computes for value i of a batch at pos
RingIndex(h, x, pos, i) ==
    LET offset0 == h + HOURS_PER_DAY - 1 - x
        offset == IF offset0 < 0 THEN offset0 + CONSUMPTION_SLOTS ELSE offset0
        idx == offset + pos + i
    IN  IF idx >= CONSUMPTION_SLOTS THEN idx - CONSUMPTION_SLOTS ELSE idx

\* for i, value in enumerate(packet.values): ... self.consumption[idx] = value
\* (a list index in -48..-1 counts from the end; any other index outside
\* 0..47 raises IndexError; None in the arithmetic raises TypeError)
RECURSIVE WriteValues(_, _, _, _)
WriteValues(w, pos, values, i) ==
    IF i >= Len(values) THEN w
    ELSE IF w.curhour = <<>> \/ w.curindex = <<>>
    THEN [w EXCEPT !.exc = "TypeError", !.msg = "unsupported operand type(s)"]
    ELSE LET idx == RingIndex(w.curhour[1], w.curindex[1], pos, i)
             slot == IF idx < 0 THEN idx + CONSUMPTION_SLOTS ELSE idx
         IN  IF idx >= CONSUMPTION_SLOTS \/ idx < 0 - CONSUMPTION_SLOTS
             THEN [w EXCEPT !.exc = "IndexError",
                            !.msg = "list assignment index out of range"]
             ELSE Let([w EXCEPT !.consumption[slot] = values[i + 1],
                                !.events = Append(@, [kind |-> "slot", slot |-> slot,
                                                      pos |-> pos, i |-> i,
                                                      value |-> values[i + 1]])],
                      LAMBDA w1 : WriteValues(w1, pos, values, i + 1))

\* the branch of on_notification for a PanasonicBLEPacketStatus
HandleStatus(w, packet) ==
    LET reading == packet.curtemp
        anomalous ==
            /\ temp_validation_enabled
            /\ w.last_temp # <<>>
            /\ now - w.last_temp_time < temp_validation_window
            /\ Abs(reading - w.last_temp[1]) > temp_change_threshold
        curtemp == IF anomalous THEN w.last_temp[1] ELSE reading
    IN  [w EXCEPT !.last_temp = <<curtemp>>,
                  !.last_temp_time = now,
                  !.status = <<[power |-> packet.power, mode |-> packet.mode,
                                powersave |-> packet.powersave, curtemp |-> curtemp,
                                settemp |-> packet.temp,
                                fanspeed |-> packet.fanspeed]>>,
                  !.do_callback = TRUE,
                  !.accepted = IF anomalous THEN @ ELSE <<reading, now>>,
                  !.events = Append(@, [kind |-> "status", reading |-> reading,
                                        published |-> curtemp,
                                        substituted |-> anomalous,
                                        prev |-> w.accepted])]

\* the branch of on_notification for a PanasonicBLEPacketConsumption
HandleConsumption(w, packet) ==
    LET w1 == IF packet.hour # <<>> THEN [w EXCEPT !.curhour = packet.hour] ELSE w
        w2 == IF packet.index # <<>> THEN [w1 EXCEPT !.curindex = packet.index] ELSE w1
    IN  IF packet.values = <<>> THEN w2
        ELSE Let(w2, LAMBDA w20 :
             Let(WriteValues(w20, packet.pos[1], packet.values[1], 0), LAMBDA w3 :
                 IF w3.exc # "none" THEN w3 ELSE [w3 EXCEPT !.do_callback = TRUE]))

\* for packet in parcel: ...; an exception ends the loop
RECURSIVE HandlePackets(_, _, _)
HandlePackets(w, packets, k) ==
    IF k > Len(packets) \/ w.exc # "none" THEN w
    ELSE Let(packets[k], LAMBDA packet :
         Let(IF packet.kind = "Status" THEN HandleStatus(w, packet)
             ELSE IF packet.kind = "Consumption" THEN HandleConsumption(w, packet)
             ELSE w,
             LAMBDA w1 : HandlePackets(w1, packets, k + 1)))

\* on_notification(handle, data): the timestamp, then the parse and the
\* packets inside one try; every exception is logged and swallowed
Handled(data) ==
    Let(Working, LAMBDA w0 :
    Let(ParcelParse(data), LAMBDA parsed :
        IF parsed.exc # "none"
        THEN [w0 EXCEPT !.exc = parsed.exc, !.msg = parsed.msg]
        ELSE HandlePackets(w0, parsed.parcel.packets, 1)))

\* as on_notification, the timestamp taken after the parse, inside the try
on_notification_late(data) ==
    \E w \in {Handled(data)} :
        /\ last_notification_time' = IF ParcelParse(data).exc = "none" THEN now
                                     ELSE last_notification_time
        /\ status' = w.status
        /\ curhour' = w.curhour
        /\ curindex' = w.curindex
        /\ consumption' = w.consumption
        /\ last_temp' = w.last_temp
        /\ last_temp_time' = w.last_temp_time
        /\ accepted' = w.accepted
        /\ nlast' = [data |-> data, at |-> now, exc |-> w.exc, msg |-> w.msg,
                     events |-> w.events,
                     callbacks |-> IF w.exc = "none" /\ w.do_callback
                                   THEN N_UPDATE_CALLBACKS ELSE 0]
        /\ UNCHANGED last_update

on_notification(data) ==
    \E w \in {Handled(data)} :
        /\ last_notification_time' = now
        /\ status' = w.status
        /\ curhour' = w.curhour
        /\ curindex' = w.curindex
        /\ consumption' = w.consumption
        /\ last_temp' = w.last_temp
        /\ last_temp_time' = w.last_temp_time
        /\ accepted' = w.accepted
        /\ nlast' = [data |-> data, at |-> now, exc |-> w.exc, msg |-> w.msg,
                     events |-> w.events,
                     callbacks |-> IF w.exc = "none" /\ w.do_callback
                                   THEN N_UPDATE_CALLBACKS ELSE 0]
        /\ UNCHANGED last_update

\* PanasonicHC.__init__
SessionInit ==
    /\ status = <<>>
    /\ curhour = <<>>
    /\ curindex = <<>>
    /\ consumption = [i \in 0..(CONSUMPTION_SLOTS - 1) |-> 0]
    /\ last_update = 0
    /\ last_temp = <<>>
    /\ last_temp_time = 0
    /\ last_notification_time = 0
    /\ nlast = <<>>
    /\ accepted = <<>>

\* time passes, up to max
TickTo(max) ==
    /\ now < max
    /\ now' = now + 1

Tick == TickTo(MaxTime)

\* no task of the integration has started, nobody has called the session
SysIdle ==
    /\ cfg = <<>> /\ pc = "init" /\ attempt = 0 /\ delay = 0 /\ wake = 0
    /\ gs_now = 0 /\ scmd = "" /\ ctx = ""
    /\ lock = "free" /\ lockq = <<>> /\ inflight = {} /\ wlast = <<>>
    /\ upc = "idle" /\ ucall = <<>>
    /\ signals = <<>> /\ waits = <<>> /\ clast = <<>> /\ oplast = <<>>
    /\ drops = 0

---------------------------------------------------------------------------
(* Frames the controller sends.                                             *)

\* a notification parcel from the indoor unit, framed as the wire has it
DeviceFrame(packets) ==
    ParcelEncode(Parcel("I_UNIT1", "APP", "NOTIFY", packets))

\* consumption reports: the hour in payload byte 8, the ring position in
\* payload byte 11, a batch of n two-byte values from payload byte 4 on
HourReport(h) ==
    GenericPacket(PTYPE_CONSUMPTION, <<2, 0, 19, 1, 0, 0, 0, 0, h>>)

IndexReport(x) ==
    GenericPacket(PTYPE_CONSUMPTION, <<2, 0, 19, 2, 0, 0, 0, 0, 0, 0, 0, x>>)

RECURSIVE BatchBytes(_, _)
BatchBytes(n, i) ==
    IF i > n THEN <<>>
    ELSE <<(i * 10) \div 256, (i * 10) % 256>> \o BatchBytes(n, i + 1)

\* sub-kind 3..14, n values: 1.0, 2.0, ... (10, 20, ... tenths)
ValuesBatch(sub, n) ==
    GenericPacket(PTYPE_CONSUMPTION, <<2, 0, 19, sub>> \o BatchBytes(n, 1))

\* a status report: power on, mode heat, fan auto, target 22.0, and the
\* current temperature byte b
StatusReport(b) ==
    GenericPacket(PTYPE_STATUS, <<33, 64, 0, 0, 114, b, 0, 0, 0, 0, 0, 0>>)

---------------------------------------------------------------------------
(* SpecCodec: the two transforms applied to raw buffers.                   *)

\* byte values the raw buffers are built from: the two keys, their
\* combination 105 ^ 202 = 163, and small and extreme values
ByteSample == {0, 1, 3, 105, 163, 255}

RECURSIVE SeqsUpTo(_, _)
SeqsUpTo(S, n) ==
    IF n = 0 THEN {<<>>}
    ELSE LET shorter == SeqsUpTo(S, n - 1)
         IN  shorter \cup {Append(s, b) : s \in {t \in shorter : Len(t) = n - 1}, b \in S}

RawBuffers == SeqsUpTo(ByteSample, MaxBufLen)

CodecIdle == cbuf = <<>> /\ chist = <<>>
WireIdle == wbytes = <<>> /\ wcall = <<>>
LinkDown == now = 1 /\ connected = FALSE /\ subscribed = FALSE
\* the link is up and notifications are subscribed, as a Connect at time 1
\* leaves them
LinkUp == now = 1 /\ connected = TRUE /\ subscribed = TRUE

CodecInit ==
    /\ cbuf \in RawBuffers
    /\ chist = <<>>
    /\ WireIdle /\ LinkDown /\ SessionInit /\ SysIdle

CodecCall(op, res) ==
    /\ Len(chist) < MaxCodecOps
    /\ \E r \in {res} :
        /\ chist' = Append(chist, [op |-> op, arg |-> cbuf, exc |-> r.exc,
                                   msg |-> r.msg, ret |-> r.ret, after |-> r.data])
        /\ cbuf' = r.data
    /\ UNCHANGED <<wireVars, linkVars, sessVars, noteVars, sysVars>>

CodecDecode == CodecCall("decode", _decode(cbuf))

CodecEncode == CodecCall("encode", _encode(cbuf))

\* the caller goes on with the bytes the last call returned
CodecPass ==
    /\ chist # <<>>
    /\ chist[Len(chist)].exc = "none"
    /\ cbuf = chist[Len(chist)].arg
    /\ cbuf # chist[Len(chist)].ret
    /\ Len(chist) < MaxCodecOps
    /\ cbuf' = chist[Len(chist)].ret
    /\ UNCHANGED <<chist, wireVars, linkVars, sessVars, noteVars, sysVars>>

CodecNext == CodecDecode \/ CodecEncode \/ CodecPass

SpecCodec == CodecInit /\ [][CodecNext]_vars

---------------------------------------------------------------------------
(* SpecWire: packets and parcels parsed from bytes, commands built and     *)
(* serialised.                                                              *)

\* status payloads: byte 0 (power, mode), byte 1 (fan), bytes 4 and 5 (the
\* temperatures), in payloads of 5, 6 and 12 bytes
StatusByte0 == {33, 32, 65, 161, 1, 193}
StatusByte1 == {64, 96, 128, 160, 0, 32}
StatusPayloads ==
    {<<b0, b1, 0, 0, 114>> : b0 \in StatusByte0, b1 \in StatusByte1}
    \cup {<<b0, b1, 0, 0, 114, 112>> : b0 \in StatusByte0, b1 \in StatusByte1}
    \cup {<<b0, b1, 0, 0, t, c, 1, 0, 0, 0, 0, 0>> :
            b0 \in {33, 65}, b1 \in {64, 160}, t \in {102, 134}, c \in {100, 112}}

\* packet streams: a type byte, a length byte, the payload
PacketStreams ==
    {<<PTYPE_STATUS, Len(p)>> \o p : p \in StatusPayloads}
    \cup {<<PTYPE_OUTDOOR_TEMP, 2, 0, 215>>, <<76, 4, 9, 0, 114, 0>>,
          <<PTYPE_CONSUMPTION, 5, 0, 0, 17, 2, 1>>, <<PTYPE_STATUS>>, <<>>}
    \cup {PacketEncode(HourReport(7)), PacketEncode(IndexReport(2)),
          PacketEncode(ValuesBatch(3, 2)), PacketEncode(ValuesBatch(14, 3)),
          PacketEncode(ValuesBatch(5, 0))}
    \cup {<<PTYPE_CONSUMPTION, 6, 2, 0, 19, 4, 1, 44>>,
          <<PTYPE_CONSUMPTION, 7, 2, 0, 19, 3, 0, 10, 0>>,
          <<PTYPE_CONSUMPTION, 5, 2, 0, 19, 15, 1>>,
          <<PTYPE_CONSUMPTION, 4, 2, 0, 19, 0>>}

\* the temperatures passed to TemperatureSet, in tenths of a degree: the
\* half-degree grid from 15.0 to 33.0, and values off it
SetTemperatures ==
    {5 * k : k \in 30..66} \cup {223, 0 - 400, 0 - 355, 925, 930, 1000}

WireInit ==
    /\ wbytes \in PacketStreams
    /\ wcall = <<>>
    /\ CodecIdle /\ LinkDown /\ SessionInit /\ SysIdle

\* PanasonicBLEPacket.parse on the stream at hand
WirePacketParse ==
    /\ wcall = <<>>
    /\ wbytes # <<>>
    /\ wcall' = <<[op |-> "Packet.parse", arg |-> wbytes] @@ PacketParse(wbytes, 0)>>
    /\ UNCHANGED <<wbytes, codecVars, linkVars, sessVars, noteVars, sysVars>>

\* the five bytes before the packets: the marker, the source, the
\* destination, the operation and the packet count; a notification of the
\* indoor unit announcing 0, 1 or 2 packets, a response of the application,
\* and headers with a byte the parser refuses
WireHeaders ==
    {<<PARCEL_MARKER, COMPONENT["I_UNIT1"], COMPONENT["APP"], OPERATION["NOTIFY"], c>> :
        c \in 0..2}
    \cup {<<PARCEL_MARKER, COMPONENT["APP"], COMPONENT["I_UNIT1"], OPERATION["SET"], 1>>,
          <<PARCEL_MARKER + 1, 1, 249, 4, 1>>, <<PARCEL_MARKER + 1, 99, 249, 4, 1>>,
          <<PARCEL_MARKER, 99, 249, 4, 1>>, <<PARCEL_MARKER, 1, 0, 4, 1>>,
          <<PARCEL_MARKER, 1, 249, 7, 1>>}

\* what follows the packet at hand in the parcel: nothing, or an hour report
WireTrailers == {<<>>, PacketEncode(HourReport(7))}

\* a parcel holding the packet at hand is framed by the device
WireFrame ==
    /\ wcall # <<>>
    /\ wcall[1].op = "Packet.parse"
    /\ \E hdr \in WireHeaders, more \in WireTrailers :
        /\ wbytes' = _encode(hdr \o wbytes \o more \o <<0>>).ret
        /\ wcall' = <<[op |-> "frame", arg |-> wbytes, hdr |-> hdr, more |-> more]>>
    /\ UNCHANGED <<codecVars, linkVars, sessVars, noteVars, sysVars>>

\* PanasonicBLETemp(temp).encode()
WireTemperatureSet ==
    /\ wcall = <<>>
    /\ wbytes = <<>>
    /\ \E temp10 \in SetTemperatures :
        \E r \in {PanasonicBLETemp(temp10)} :
            /\ wcall' = <<[op |-> "TemperatureSet", arg |-> temp10] @@ r>>
            /\ wbytes' = IF r.exc = "none" THEN ParcelEncode(r.parcel) ELSE wbytes
    /\ UNCHANGED <<codecVars, linkVars, sessVars, noteVars, sysVars>>

\* PanasonicBLEParcel.parse on the frame at hand
WireParcelParse ==
    /\ wcall # <<>>
    /\ wcall[1].op \in {"frame", "TemperatureSet"}
    /\ wcall[1].op = "TemperatureSet" => wcall[1].exc = "none"
    /\ wcall' = <<[op |-> "Parcel.parse", arg |-> wbytes, of |-> wcall[1]]
                  @@ ParcelParse(wbytes)>>
    /\ UNCHANGED <<wbytes, codecVars, linkVars, sessVars, noteVars, sysVars>>

WireNext == WirePacketParse \/ WireFrame \/ WireTemperatureSet \/ WireParcelParse

SpecWire == WireInit /\ [][WireNext]_vars

---------------------------------------------------------------------------
(* SpecIter: loops over the packets of one parcel.  __iter__ returns the     *)
(* parcel itself, so every loop reads and moves the one index the parcel    *)
(* keeps; a loop is what a `for` statement or a caller of iter() and next() *)
(* has seen so far.                                                         *)

\* the loops started on the parcel
MaxLoops == 3

\* parcels of 0, 1, 2 and 3 packets, as PanasonicBLEParcel.parse returns them
IterParcels ==
    {ParcelParse(DeviceFrame(ps)).parcel :
        ps \in {<<>>, <<StatusReport(110)>>, <<StatusReport(110), HourReport(7)>>,
                <<HourReport(7), IndexReport(2), ValuesBatch(3, 2)>>}}

IterInit ==
    /\ \E parcel \in IterParcels :
          wcall = <<[op |-> "iterate", parcel |-> parcel, idx |-> <<>>, loops |-> <<>>]>>
    /\ wbytes = <<>>
    /\ CodecIdle /\ LinkDown /\ SessionInit /\ SysIdle

\* PanasonicBLEParcel.__iter__: a loop starts
IterStart ==
    /\ Len(wcall[1].loops) < MaxLoops
    /\ wcall' = <<[wcall[1] EXCEPT !.idx = <<0>>,
                                   !.loops = Append(@, [yielded |-> <<>>,
                                                        done |-> FALSE])]>>
    /\ UNCHANGED <<wbytes, codecVars, linkVars, sessVars, noteVars, sysVars>>

\* PanasonicBLEParcel.__next__, called by loop l: StopIteration ends the loop
IterNext(l) ==
    /\ ~wcall[1].loops[l].done
    /\ wcall' = <<IF wcall[1].idx[1] >= Len(wcall[1].parcel.packets)
                  THEN [wcall[1] EXCEPT !.loops[l].done = TRUE]
                  ELSE [wcall[1] EXCEPT
                           !.loops[l].yielded =
                               Append(@, wcall[1].parcel.packets[wcall[1].idx[1] + 1]),
                           !.idx = <<wcall[1].idx[1] + 1>>]>>
    /\ UNCHANGED <<wbytes, codecVars, linkVars, sessVars, noteVars, sysVars>>

IterAdvance == \E l \in 1..Len(wcall[1].loops) : IterNext(l)

IterSteps == IterStart \/ IterAdvance

SpecIter == IterInit /\ [][IterSteps]_vars

---------------------------------------------------------------------------
(* SpecRing: consumption reports arriving on a live link: the hour, the     *)
(* index, and a batch of values as the first notification or after a report. *)

HourFrames == {DeviceFrame(<<HourReport(h)>>) : h \in 0..MaxHour}
IndexFrames == {DeviceFrame(<<IndexReport(x)>>) : x \in 0..MaxIndex}
BatchFrames ==
    {DeviceFrame(<<ValuesBatch(sub, n)>>) : sub \in 3..14, n \in 0..MaxBatchLen}

RingInit ==
    /\ LinkUp /\ SessionInit /\ CodecIdle /\ WireIdle /\ SysIdle

Deliver(data) ==
    /\ connected /\ subscribed
    /\ on_notification(data)
    /\ UNCHANGED <<codecVars, wireVars, linkVars, sysVars>>

RingHour == curhour = <<>> /\ \E f \in HourFrames : Deliver(f)

RingIndexReport == curindex = <<>> /\ \E f \in IndexFrames : Deliver(f)

RingBatch ==
    /\ IF nlast = <<>> THEN TRUE ELSE nlast.exc = "none" /\ nlast.callbacks = 0
    /\ \E f \in BatchFrames : Deliver(f)

RingNext == RingHour \/ RingIndexReport \/ RingBatch

SpecRing == RingInit /\ [][RingNext]_vars

---------------------------------------------------------------------------
(* SpecTemp: status reports arriving on a live link while time passes.     *)

\* current-temperature bytes: 20.0, 27.5 and 35.0 degrees
TempBytes == {110, 125, 140}
TempFrames == {DeviceFrame(<<StatusReport(b)>>) : b \in TempBytes}

TempInit ==
    /\ LinkUp /\ SessionInit /\ CodecIdle /\ WireIdle /\ SysIdle

TempTick ==
    /\ Tick
    /\ UNCHANGED <<connected, subscribed, codecVars, wireVars, sessVars, noteVars, sysVars>>

TempStatus == \E f \in TempFrames : Deliver(f)

TempNext == TempTick \/ TempStatus

SpecTemp == TempInit /\ [][TempNext]_vars

---------------------------------------------------------------------------
(* SpecDrop: frames the parser refuses arriving on a live link, between     *)
(* status reports, while time passes.                                       *)

\* the frame the wire carries for the parcel bytes raw: the checksum byte
\* appended and the whole obfuscated
Framed(raw) == _encode(raw \o <<0>>).ret

\* a frame with its last byte changed
Corrupted(frame) == [frame EXCEPT ![Len(frame)] = (@ + 1) % 256]

\* a status report whose mode bits are 0, which no MODE has
BadModeReport ==
    GenericPacket(PTYPE_STATUS, <<1, 64, 0, 0, 114, 110, 0, 0, 0, 0, 0, 0>>)

\* a status report whose fan bits are 7, which no FANSPEED has
BadFanReport ==
    GenericPacket(PTYPE_STATUS, <<33, 224, 0, 0, 114, 110, 0, 0, 0, 0, 0, 0>>)

\* notifications holding a status report with an unknown mode or fan speed,
\* alone or after a packet that parses
BadEnumFrames ==
    {DeviceFrame(<<StatusReport(112), BadModeReport>>),
     DeviceFrame(<<BadFanReport>>),
     DeviceFrame(<<HourReport(5), BadFanReport>>)}

DropStatusFrames == {DeviceFrame(<<StatusReport(b)>>) : b \in {110, 112}}

\* nothing at all; a bad checksum; a wrong first byte; a source no COMPONENT
\* has; a parcel cut after its first byte; a parcel announcing a packet it
\* does not hold; a good status report followed by one with a bad mode
DropBadFrames ==
    {<<>>,
     Corrupted(DeviceFrame(<<StatusReport(112)>>)),
     Framed(<<PARCEL_MARKER + 1, 1, 249, 4, 0>>),
     Framed(<<PARCEL_MARKER, 99, 249, 4, 0>>),
     Framed(<<PARCEL_MARKER>>),
     Framed(<<PARCEL_MARKER, 1, 249, 4, 1>>),
     DeviceFrame(<<StatusReport(112), BadModeReport>>)}
    \cup BadEnumFrames

DropInit ==
    /\ LinkUp /\ SessionInit /\ CodecIdle /\ WireIdle /\ SysIdle

DropTick ==
    /\ Tick
    /\ UNCHANGED <<connected, subscribed, codecVars, wireVars, sessVars, noteVars, sysVars>>

DropStatus == \E f \in DropStatusFrames : Deliver(f)

DropBad == \E f \in DropBadFrames : Deliver(f)

DropNext == DropTick \/ DropStatus \/ DropBad

SpecDrop == DropInit /\ [][DropNext]_vars


---------------------------------------------------------------------------
(* The session's transport operations and the background task              *)
(* _async_run_thermostat, one step per await.  A transport call and its    *)
(* completion are one step, except write_gatt_char, whose call and          *)
(* completion are two steps (the lock is held in between).                  *)

\* the number of dispatcher signals kept in signals
SignalWindow == 2

\* how a transport call ends: it returns, it raises BleakError or
\* TimeoutError, or it raises another exception (EOFError, OSError, ...)
TransportOutcomes == {"ok", "BleakError", "Other"}

\* PanasonicHC.is_connected
is_connected == connected

\* as Receiving, a silence of exactly the timeout still counting as live
Receiving_lenient(lnt) ==
    IF lnt = 0 THEN TRUE ELSE (now - lnt) <= cfg.notification_timeout

\* as Receiving, without the case of a timestamp never set
Receiving_nosentinel(lnt) == (now - lnt) < cfg.notification_timeout

\* PanasonicHC.is_receiving_notifications, read when _last_notification_time
\* is lnt
Receiving(lnt) ==
    IF lnt = 0 THEN TRUE ELSE (now - lnt) < cfg.notification_timeout

is_receiving_notifications == Receiving(last_notification_time)

Min(a, b) == IF a < b THEN a ELSE b

\* as BackoffDelay, the wait doubling from the second failure on
BackoffDelay_late(n) ==
    Min(cfg.reconnect_base_delay * (2 ^ (IF n > 1 THEN n - 2 ELSE 0)),
        cfg.reconnect_max_delay)

\* delay = min(reconnect_base_delay * (2 ** (attempt - 1)), reconnect_max_delay)
BackoffDelay(n) ==
    Min(cfg.reconnect_base_delay * (2 ^ (n - 1)), cfg.reconnect_max_delay)

\* the command objects the session writes
CommandParcel(cmd) ==
    IF cmd = "StatusReq" THEN PanasonicBLEStatusReq.parcel
    ELSE IF cmd = "PowerReq" THEN PanasonicBLEPowerReq.parcel
    ELSE PanasonicBLEPowerReqHour.parcel

\* async_unload_entry has taken the session out of hass.data[DOMAIN]
Popped == upc \in {"ul_disc", "unloaded", "ul_error"}

\* what the task's step works on: its locals and the fields it may set, and
\* whether hass.data[DOMAIN] still holds the session
Cur ==
    [pc |-> pc, attempt |-> attempt, delay |-> delay, wake |-> wake,
     gs_now |-> gs_now, scmd |-> scmd, ctx |-> ctx,
     lock |-> lock, lockq |-> lockq, inflight |-> inflight, wlast |-> wlast,
     signals |-> signals, waits |-> waits, clast |-> clast, oplast |-> oplast,
     last_update |-> last_update, popped |-> Popped]

\* async_dispatcher_send(hass, f"{signal}_{mac_address}")
Signal(s, name) ==
    [s EXCEPT !.signals = Append(IF Len(s.signals) < SignalWindow THEN s.signals
                                 ELSE Tail(s.signals), name)]

\* the result of the async_connect in progress
ConnectResult(s, result) ==
    IF s.clast = <<>> THEN s ELSE [s EXCEPT !.clast[1].result = result]

\* RECONNECT_MAX_ATTEMPTS: 0 means unlimited attempts
RECONNECT_MAX_ATTEMPTS == 0

\* one turn of the while loop of _async_reconnect_thermostat, up to the
\* await of BleakClient.connect inside async_connect; the loop's test
\* RECONNECT_MAX_ATTEMPTS == 0 or attempt < RECONNECT_MAX_ATTEMPTS holds at
\* every turn
ReconnectTry(s) ==
    [s EXCEPT !.attempt = s.attempt + 1,
              !.delay = BackoffDelay(s.attempt + 1),
              !.wake = 0,
              !.clast = <<[attempt |-> s.attempt + 1,
                           reset |-> IF s.clast = <<>> THEN 0 ELSE s.clast[1].reset,
                           result |-> "pending"]>>,
              !.pc = "cn_open"]

\* the call of _async_reconnect_thermostat, up to its first await; its
\* lookup hass.data[DOMAIN][entry.entry_id] raises KeyError once the session
\* was popped, which no handler around the call catches: the task ends
Reconnect(s, conn) ==
    IF s.popped THEN [s EXCEPT !.wake = 0, !.pc = "failed"]
    ELSE Let([s EXCEPT !.attempt = 0, !.waits = <<>>, !.ctx = "reconnect"], LAMBDA s0 :
             IF conn THEN [s0 EXCEPT !.pc = "rc_disc"] ELSE ReconnectTry(s0))

\* the session operation in progress: async_connect until it has ended,
\* async_get_status otherwise
OpInProgress(s) ==
    IF s.clast # <<>> /\ s.clast[1].result = "pending" THEN "connect"
    ELSE "get_status"

\* the operation in progress ends: it raises e with message msg, or returns
\* (e = "none")
Ended(s, e, msg) ==
    [s EXCEPT !.oplast = <<[op |-> OpInProgress(s), exc |-> e, msg |-> msg]>>]

\* as Caught, _async_run_thermostat catching PanasonicHCException only: any
\* other exception of async_get_status ends the task
Caught_unhandled(s, e, msg, conn) ==
    Let(Ended(s, e, msg), LAMBDA s1 :
        IF s.ctx = "reconnect"
        THEN [ConnectResult(s1, e) EXCEPT !.waits = Append(s.waits, s.delay),
                                          !.wake = now + s.delay,
                                          !.gs_now = 0, !.scmd = "",
                                          !.pc = "rc_sleep"]
        ELSE IF s.ctx = "api"
        THEN [ConnectResult(s1, e) EXCEPT !.gs_now = 0, !.scmd = "", !.pc = "idle"]
        ELSE IF e # "PanasonicHCException"
        THEN [s1 EXCEPT !.gs_now = 0, !.scmd = "", !.pc = "stopped"]
        ELSE IF conn
        THEN [s1 EXCEPT !.wake = now + cfg.status_update_interval,
                        !.gs_now = 0, !.scmd = "", !.pc = "lp_sleep"]
        ELSE Reconnect(Signal([s1 EXCEPT !.gs_now = 0, !.scmd = ""], "disconnected"),
                       conn))

\* the session operation in progress raises e with message msg, which
\* reaches the except clauses of the try block the caller is in
Caught(s, e, msg, conn) ==
    Let(Ended(s, e, msg), LAMBDA s1 :
        IF s.ctx = "reconnect"
        THEN [ConnectResult(s1, e) EXCEPT !.waits = Append(s.waits, s.delay),
                                          !.wake = now + s.delay,
                                          !.gs_now = 0, !.scmd = "",
                                          !.pc = "rc_sleep"]
        ELSE IF s.ctx = "api"
        THEN [ConnectResult(s1, e) EXCEPT !.gs_now = 0, !.scmd = "", !.pc = "idle"]
        ELSE IF e = "PanasonicHCException" /\ conn
        THEN [s1 EXCEPT !.wake = now + cfg.status_update_interval,
                        !.gs_now = 0, !.scmd = "", !.pc = "lp_sleep"]
        ELSE Reconnect(Signal([s1 EXCEPT !.gs_now = 0, !.scmd = ""], "disconnected"),
                       conn))

\* command.encode() of the three requests of async_get_status, which take
\* no argument: the same bytes at every call
StatusReqData == ParcelEncode(PanasonicBLEStatusReq.parcel)
PowerReqData == ParcelEncode(PanasonicBLEPowerReq.parcel)
PowerReqHourData == ParcelEncode(PanasonicBLEPowerReqHour.parcel)

\* data = command.encode()
CommandData(cmd, parcel) ==
    IF cmd = "StatusReq" THEN StatusReqData
    ELSE IF cmd = "PowerReq" THEN PowerReqData
    ELSE IF cmd = "PowerReqHour" THEN PowerReqHourData
    ELSE ParcelEncode(parcel)

\* write_gatt_char is called under the lock
IssueWrite(s, by, cmd, parcel) ==
    [s EXCEPT !.lock = by,
              !.inflight = s.inflight \cup {by},
              !.wlast = <<[by |-> by, cmd |-> cmd, parcel |-> parcel,
                           data |-> CommandData(cmd, parcel), link |-> connected]>>]

\* as SupWrite, the write issued without taking the lock
SupWrite_nolock(s, cmd, conn) ==
    IF ~conn THEN Caught(s, "PanasonicHCException", "Not Connected", conn)
    ELSE [IssueWrite(s, "sup", cmd, CommandParcel(cmd)) EXCEPT
              !.scmd = cmd, !.pc = "w_write"]

\* as SupWrite, without the test of is_connected
SupWrite_nocheck(s, cmd, conn) ==
    IF s.lock = "free" /\ s.lockq = <<>>
    THEN [IssueWrite(s, "sup", cmd, CommandParcel(cmd)) EXCEPT
              !.scmd = cmd, !.pc = "w_write"]
    ELSE [s EXCEPT !.scmd = cmd, !.pc = "w_lock",
                   !.lockq = Append(s.lockq, "sup")]

\* _async_write_command(command) up to its first await: asyncio.Lock is
\* taken at once when it is free and nobody waits for it
SupWrite(s, cmd, conn) ==
    IF ~conn THEN Caught(s, "PanasonicHCException", "Not Connected", conn)
    ELSE IF s.lock = "free" /\ s.lockq = <<>>
    THEN [IssueWrite(s, "sup", cmd, CommandParcel(cmd)) EXCEPT
              !.scmd = cmd, !.pc = "w_write"]
    ELSE [s EXCEPT !.scmd = cmd, !.pc = "w_lock",
                   !.lockq = Append(s.lockq, "sup")]

\* as GetStatus, without the test of is_receiving_notifications
GetStatus_nostale(s, conn, lnt) == SupWrite(s, "StatusReq", conn)

\* async_get_status up to its first await
GetStatus(s, conn, lnt) ==
    IF ~Receiving(lnt) /\ conn
    THEN Caught(s, "PanasonicHCException", "No recent notifications", conn)
    ELSE SupWrite(s, "StatusReq", conn)

\* as LoopTop, the iteration testing is_connected only
LoopTop_nostale(s, conn, lnt) ==
    Let([s EXCEPT !.ctx = "poll", !.wake = 0], LAMBDA s0 :
        IF ~conn
        THEN Reconnect(IF s0.popped
                       THEN Signal(Signal(s0, "disconnected"), "disconnected")
                       ELSE Signal(s0, "disconnected"), conn)
        ELSE GetStatus(s0, conn, lnt))

\* as LoopTop, reconnecting without telling the entities
LoopTop_nosignal(s, conn, lnt) ==
    Let([s EXCEPT !.ctx = "poll", !.wake = 0], LAMBDA s0 :
        IF ~conn \/ ~Receiving(lnt)
        THEN Reconnect(s0, conn)
        ELSE GetStatus(s0, conn, lnt))

\* the top of the while loop of _async_run_thermostat, up to the next await;
\* the KeyError of a reconnect on a popped session is raised inside the try
\* block: except Exception sends disconnected again and calls once more
LoopTop(s, conn, lnt) ==
    Let([s EXCEPT !.ctx = "poll", !.wake = 0], LAMBDA s0 :
        IF ~conn \/ ~Receiving(lnt)
        THEN Reconnect(IF s0.popped
                       THEN Signal(Signal(s0, "disconnected"), "disconnected")
                       ELSE Signal(s0, "disconnected"), conn)
        ELSE GetStatus(s0, conn, lnt))

\* the locals of async_get_status are gone when it returns or raises
GetStatusLeft(s) == [s EXCEPT !.gs_now = 0, !.scmd = ""]

\* the locals of _async_reconnect_thermostat are gone when it returns
ReconnectLeft(s) == [s EXCEPT !.attempt = 0, !.delay = 0, !.waits = <<>>]

\* as Returned, connect-with-retry returning without telling the entities
Returned_nosignal(s, conn, lnt) ==
    Let(Ended(s, "none", ""), LAMBDA s1 :
        IF s.ctx = "reconnect"
        THEN LoopTop(ReconnectLeft(GetStatusLeft(ConnectResult(s1, "ok"))),
                     conn, lnt)
        ELSE IF s.ctx = "api"
        THEN [GetStatusLeft(ConnectResult(s1, "ok")) EXCEPT !.pc = "idle"]
        ELSE [GetStatusLeft(s1) EXCEPT !.wake = now + cfg.status_update_interval,
                                       !.pc = "lp_sleep"])

\* async_get_status has returned
Returned(s, conn, lnt) ==
    Let(Ended(s, "none", ""), LAMBDA s1 :
        IF s.ctx = "reconnect"
        THEN LoopTop(Signal(ReconnectLeft(GetStatusLeft(ConnectResult(s1, "ok"))),
                            "connected"), conn, lnt)
        ELSE IF s.ctx = "api"
        THEN [GetStatusLeft(ConnectResult(s1, "ok")) EXCEPT !.pc = "idle"]
        ELSE [GetStatusLeft(s1) EXCEPT !.wake = now + cfg.status_update_interval,
                                       !.pc = "lp_sleep"])

\* the step's effect on the task's locals and the fields it may set
Commit(s) ==
    /\ pc' = s.pc /\ attempt' = s.attempt /\ delay' = s.delay /\ wake' = s.wake
    /\ gs_now' = s.gs_now /\ scmd' = s.scmd /\ ctx' = s.ctx
    /\ lock' = s.lock /\ lockq' = s.lockq /\ inflight' = s.inflight
    /\ wlast' = s.wlast
    /\ signals' = s.signals /\ waits' = s.waits /\ clast' = s.clast
    /\ oplast' = s.oplast
    /\ last_update' = s.last_update

restVars == <<codecVars, wireVars, noteVars, cfg, userVars, drops, status, curhour,
              curindex, consumption, last_temp, last_temp_time>>

\* the exception the session raises for a transport call that ended with o
Exc(o) == IF o = "BleakError" THEN "PanasonicHCException" ELSE "Other"

\* its message: msg where the session wraps the transport's error
ExcMsg(o, msg) == IF o = "BleakError" THEN msg ELSE ""

\* async_disconnect ends as the transport's disconnect did
Disconnected(s, o) ==
    [s EXCEPT !.oplast =
        <<[op |-> "disconnect",
           exc |-> IF o = "ok" THEN "none" ELSE Exc(o),
           msg |-> ExcMsg(o, "Could not disconnect from Thermostat")]>>]

\* entry.async_create_background_task(hass, _async_run_thermostat(hass, entry)):
\* the task runs to its first await
RunStart ==
    /\ pc = "init"
    /\ Commit(Reconnect(Cur, is_connected))
    /\ UNCHANGED <<linkVars, last_notification_time, restVars>>

\* as DisconnectDone, async_disconnect forgetting the status it holds
DisconnectDone_clearing(o) ==
    /\ pc = "rc_disc"
    /\ IF o = "ok"
       THEN /\ connected' = FALSE
            /\ subscribed' = FALSE
            /\ Commit([Disconnected(Cur, o) EXCEPT !.wake = now + 1,
                                                   !.pc = "rc_settle"])
       ELSE /\ UNCHANGED <<connected, subscribed>>
            /\ Commit(ReconnectTry(Disconnected(Cur, o)))
    /\ status' = <<>>
    /\ UNCHANGED <<now, last_notification_time, codecVars, wireVars, noteVars, cfg,
                   userVars, drops, curhour, curindex, consumption, last_temp,
                   last_temp_time>>

\* await thermostat.async_disconnect() ends; an exception is logged and the
\* loop is entered all the same
DisconnectDone(o) ==
    /\ pc = "rc_disc"
    /\ IF o = "ok"
       THEN /\ connected' = FALSE
            /\ subscribed' = FALSE
            /\ Commit([Disconnected(Cur, o) EXCEPT !.wake = now + 1,
                                                   !.pc = "rc_settle"])
       ELSE /\ UNCHANGED <<connected, subscribed>>
            /\ Commit(ReconnectTry(Disconnected(Cur, o)))
    /\ UNCHANGED <<now, last_notification_time, restVars>>

\* await asyncio.sleep(1) ends
SettleDone ==
    /\ pc = "rc_settle"
    /\ now >= wake
    /\ Commit(ReconnectTry(Cur))
    /\ UNCHANGED <<linkVars, last_notification_time, restVars>>

\* await self._conn.connect() ends
ConnectDone(o) ==
    /\ pc = "cn_open"
    /\ IF o = "ok"
       THEN /\ connected' = TRUE
            /\ subscribed' = FALSE
            /\ Commit([Cur EXCEPT !.pc = "cn_notify"])
       ELSE /\ UNCHANGED <<connected, subscribed>>
            /\ Commit(Caught(Cur, Exc(o), ExcMsg(o, "Could not connect to Thermostat"),
                             is_connected))
    /\ UNCHANGED <<now, last_notification_time, restVars>>

\* as NotifyDone, async_connect going on to async_get_status with the
\* timestamp the last connection left
NotifyDone_noreset(o) ==
    /\ pc = "cn_notify"
    /\ o = "ok" => connected
    /\ IF o = "ok"
       THEN /\ subscribed' = TRUE
            /\ UNCHANGED last_notification_time
            /\ Commit(GetStatus(Cur, TRUE, last_notification_time))
       ELSE /\ UNCHANGED <<subscribed, last_notification_time>>
            /\ Commit(Caught(Cur, Exc(o), ExcMsg(o, "Could not connect to Thermostat"),
                             is_connected))
    /\ UNCHANGED <<now, connected, restVars>>

\* await self._conn.start_notify(...) ends; then the timestamp is reset and
\* async_get_status runs to its first await
NotifyDone(o) ==
    /\ pc = "cn_notify"
    /\ o = "ok" => connected
    /\ IF o = "ok"
       THEN /\ subscribed' = TRUE
            /\ last_notification_time' = now
            /\ Commit(GetStatus([Cur EXCEPT !.clast[1].reset = now], TRUE, now))
       ELSE /\ UNCHANGED <<subscribed, last_notification_time>>
            /\ Commit(Caught(Cur, Exc(o), ExcMsg(o, "Could not connect to Thermostat"),
                             is_connected))
    /\ UNCHANGED <<now, connected, restVars>>

\* async with self._lock: the task gets the lock it waited for
SupLockAcquired ==
    /\ pc = "w_lock"
    /\ lock = "free"
    /\ lockq # <<>> /\ Head(lockq) = "sup"
    /\ Commit([IssueWrite(Cur, "sup", scmd, CommandParcel(scmd)) EXCEPT
                   !.pc = "w_write", !.lockq = Tail(lockq)])
    /\ UNCHANGED <<linkVars, last_notification_time, restVars>>

\* the lock is released and the write is no longer in flight
Released(s, by) ==
    [s EXCEPT !.lock = "free", !.inflight = s.inflight \ {by}]

\* as AfterWrite, last_update set when the fetch of the consumption begins
AfterWrite_early(s) ==
    IF s.scmd = "StatusReq"
    THEN IF now > s.last_update + cfg.consumption_interval
         THEN [s EXCEPT !.gs_now = now, !.last_update = now, !.pc = "gs_sleep1"]
         ELSE Returned([s EXCEPT !.gs_now = now], is_connected,
                       last_notification_time)
    ELSE IF s.scmd = "PowerReq"
    THEN [s EXCEPT !.pc = "gs_sleep2"]
    ELSE Returned(s, is_connected, last_notification_time)

\* as AfterWrite, the consumption fetched as soon as consumption_interval
\* has passed
AfterWrite_atinterval(s) ==
    IF s.scmd = "StatusReq"
    THEN IF now >= s.last_update + cfg.consumption_interval
         THEN [s EXCEPT !.gs_now = now, !.pc = "gs_sleep1"]
         ELSE Returned([s EXCEPT !.gs_now = now], is_connected,
                       last_notification_time)
    ELSE IF s.scmd = "PowerReq"
    THEN [s EXCEPT !.pc = "gs_sleep2"]
    ELSE Returned([s EXCEPT !.last_update = s.gs_now], is_connected,
                  last_notification_time)

\* async_get_status after a write that returned
AfterWrite(s) ==
    IF s.scmd = "StatusReq"
    THEN IF now > s.last_update + cfg.consumption_interval
         THEN [s EXCEPT !.gs_now = now, !.pc = "gs_sleep1"]
         ELSE Returned([s EXCEPT !.gs_now = now], is_connected,
                       last_notification_time)
    ELSE IF s.scmd = "PowerReq"
    THEN [s EXCEPT !.pc = "gs_sleep2"]
    ELSE Returned([s EXCEPT !.last_update = s.gs_now], is_connected,
                  last_notification_time)

\* await self._conn.write_gatt_char(...) of the task ends
SupWriteDone(o) ==
    /\ pc = "w_write"
    /\ o = "ok" => connected
    /\ Commit(IF o = "ok"
              THEN AfterWrite(Released(Cur, "sup"))
              ELSE Caught(Released(Cur, "sup"), Exc(o),
                          ExcMsg(o, "Error during write"), is_connected))
    /\ UNCHANGED <<linkVars, last_notification_time, restVars>>

\* the first await asyncio.sleep(0.5) ends
HalfSleep1Done ==
    /\ pc = "gs_sleep1"
    /\ Commit(SupWrite(Cur, "PowerReq", is_connected))
    /\ UNCHANGED <<linkVars, last_notification_time, restVars>>

\* the second await asyncio.sleep(0.5) ends
HalfSleep2Done ==
    /\ pc = "gs_sleep2"
    /\ Commit(SupWrite(Cur, "PowerReqHour", is_connected))
    /\ UNCHANGED <<linkVars, last_notification_time, restVars>>

\* await asyncio.sleep(status_update_interval) ends
PollSleepDone ==
    /\ pc = "lp_sleep"
    /\ now >= wake
    /\ Commit(LoopTop(Cur, is_connected, last_notification_time))
    /\ UNCHANGED <<linkVars, last_notification_time, restVars>>

\* await asyncio.sleep(delay) ends
BackoffSleepDone ==
    /\ pc = "rc_sleep"
    /\ now >= wake
    /\ Commit(ReconnectTry(Cur))
    /\ UNCHANGED <<linkVars, last_notification_time, restVars>>

---------------------------------------------------------------------------
(* The climate entity's set_temperature service call, the link and the     *)
(* controller.                                                              *)

\* the calls a user makes under Spec
MaxUserCalls == 1
\* the number of times the link is lost under Spec
MaxDrops == 1

\* the targets asked for: 22.0, 33.0 and 100.0 degrees
SysTemperatures == {220, 330, 1000}

\* the fields a step of the service call leaves alone
userRest == <<codecVars, wireVars, linkVars, sessVars, noteVars, cfg, supVars,
              signals, waits, clast, oplast, drops>>

UserResult(result, msg) ==
    [ucall EXCEPT ![Len(ucall)].result = result, ![Len(ucall)].msg = msg]

\* PanasonicHCClimate.async_set_temperature(temperature=temp) up to its first
\* await: PanasonicBLETemp(temp), then _async_write_command
UserSetTemperature(temp10) ==
    /\ upc = "idle"
    /\ Len(ucall) < MaxUserCalls
    /\ \E r \in {PanasonicBLETemp(temp10)} :
        IF r.exc # "none"
        THEN /\ ucall' = Append(ucall, [temp |-> temp10, built |-> FALSE,
                                        result |-> "ServiceValidationError",
                                        msg |-> "Invalid temperature"])
             /\ UNCHANGED <<upc, writeVars>>
        ELSE IF ~is_connected
        THEN /\ ucall' = Append(ucall, [temp |-> temp10, built |-> TRUE,
                                        result |-> "PanasonicHCException",
                                        msg |-> "Not Connected"])
             /\ UNCHANGED <<upc, writeVars>>
        ELSE /\ ucall' = Append(ucall, [temp |-> temp10, built |-> TRUE,
                                        result |-> "pending", msg |-> ""])
             /\ IF lock = "free" /\ lockq = <<>>
                THEN /\ upc' = "w_write"
                     /\ lock' = "user"
                     /\ inflight' = inflight \cup {"user"}
                     /\ wlast' = <<[by |-> "user", cmd |-> "Temp",
                                    parcel |-> r.parcel,
                                    data |-> ParcelEncode(r.parcel),
                                    link |-> connected]>>
                     /\ UNCHANGED lockq
                ELSE /\ upc' = "w_lock"
                     /\ lockq' = Append(lockq, "user")
                     /\ UNCHANGED <<lock, inflight, wlast>>
    /\ UNCHANGED userRest

\* async with self._lock: the call gets the lock it waited for
UserLockAcquired ==
    /\ upc = "w_lock"
    /\ lock = "free"
    /\ lockq # <<>> /\ Head(lockq) = "user"
    /\ \E r \in {PanasonicBLETemp(ucall[Len(ucall)].temp)} :
        /\ upc' = "w_write"
        /\ lock' = "user"
        /\ lockq' = Tail(lockq)
        /\ inflight' = inflight \cup {"user"}
        /\ wlast' = <<[by |-> "user", cmd |-> "Temp", parcel |-> r.parcel,
                       data |-> ParcelEncode(r.parcel), link |-> connected]>>
    /\ UNCHANGED <<ucall, userRest>>

\* await self._conn.write_gatt_char(...) of the call ends; the entity logs a
\* PanasonicHCException and restores its target
UserWriteDone(o) ==
    /\ upc = "w_write"
    /\ o = "ok" => connected
    /\ upc' = "idle"
    /\ lock' = "free"
    /\ inflight' = inflight \ {"user"}
    /\ ucall' = UserResult(IF o = "ok" THEN "ok" ELSE Exc(o),
                           ExcMsg(o, "Error during write"))
    /\ UNCHANGED <<lockq, wlast, userRest>>

\* the link is lost: BleakClient.is_connected turns false
LinkDrop ==
    /\ connected
    /\ drops < MaxDrops
    /\ connected' = FALSE
    /\ subscribed' = FALSE
    /\ drops' = drops + 1
    /\ UNCHANGED <<now, codecVars, wireVars, sessVars, noteVars, cfg, supVars,
                   writeVars, userVars, signals, waits, clast, oplast>>

\* the configuration under Spec: the smallest intervals that keep their order
SysConfig ==
    [notification_timeout |-> 3, consumption_interval |-> 4,
     status_update_interval |-> 2, reconnect_base_delay |-> 1,
     reconnect_max_delay |-> 2]

\* time.time() when the integration is set up
SysEpoch == 10

\* the controller's status report under Spec: 20.0 degrees
SysFrames == {DeviceFrame(<<StatusReport(110)>>)}

\* a session constructed with configuration c at time t, its caller at p
SetUpAt(c, t, p) ==
    /\ CodecIdle /\ WireIdle /\ SessionInit
    /\ now = t /\ connected = FALSE /\ subscribed = FALSE
    /\ cfg = c
    /\ pc = p /\ attempt = 0 /\ delay = 0 /\ wake = 0
    /\ gs_now = 0 /\ scmd = "" /\ ctx = ""
    /\ lock = "free" /\ lockq = <<>> /\ inflight = {} /\ wlast = <<>>
    /\ upc = "idle" /\ ucall = <<>>
    /\ signals = <<>> /\ waits = <<>> /\ clast = <<>> /\ oplast = <<>>
    /\ drops = 0

\* async_setup_entry has run with configuration c at time t
SetUp(c, t) == SetUpAt(c, t, "init")

Init == SetUp(SysConfig, SysEpoch)

SysTick ==
    /\ Tick
    /\ UNCHANGED <<connected, subscribed, codecVars, wireVars, sessVars, noteVars,
                   sysVars>>

SysNotify == \E f \in SysFrames : Deliver(f)

\* the steps of the background task that need no other caller of the session
SupStep ==
    \/ RunStart
    \/ \E o \in TransportOutcomes : DisconnectDone(o)
    \/ SettleDone
    \/ \E o \in TransportOutcomes : ConnectDone(o)
    \/ \E o \in TransportOutcomes : NotifyDone(o)
    \/ \E o \in TransportOutcomes : SupWriteDone(o)
    \/ HalfSleep1Done
    \/ HalfSleep2Done
    \/ PollSleepDone
    \/ BackoffSleepDone

UserStep ==
    \/ \E t \in SysTemperatures : UserSetTemperature(t)
    \/ UserLockAcquired
    \/ \E o \in TransportOutcomes : UserWriteDone(o)

\* Spec: the background task, the link and the controller.  No service call
\* is made, so the task finds the lock free at every write.
Next == SupStep \/ LinkDrop \/ SysNotify \/ SysTick

Spec == Init /\ [][Next]_vars

---------------------------------------------------------------------------
(* SpecUser: the supervisor and a set_temperature service call on one      *)
(* session, set up late enough for the clock to end soon.                   *)

UserEpoch == 12

UserInit == SetUp(SysConfig, UserEpoch)

UserNext == SupStep \/ SupLockAcquired \/ UserStep \/ LinkDrop \/ SysTick

SpecUser == UserInit /\ [][UserNext]_vars

---------------------------------------------------------------------------
(* SpecBackoff: the supervisor alone, with the delays of the example        *)
(* (base 2, max 30), over a clock long enough for the cap to be reached.    *)
(* The controller may be out of reach at any attempt; once the link is      *)
(* open every transport call returns, the controller stays silent, and the *)
(* clock moves only while the task sleeps: a transport call takes less     *)
(* than a second and the event loop resumes a sleeping task on time.        *)

BackoffConfig ==
    [notification_timeout |-> 20, consumption_interval |-> 60,
     status_update_interval |-> 5, reconnect_base_delay |-> 2,
     reconnect_max_delay |-> 30]

BackoffEpoch == 100
MaxBackoffTime == 195

BackoffInit == SetUp(BackoffConfig, BackoffEpoch)

\* the task is in an asyncio.sleep of whole seconds that has not ended
Sleeping == pc \in {"rc_settle", "lp_sleep", "rc_sleep"} /\ now < wake

BackoffTick ==
    /\ Sleeping
    /\ TickTo(MaxBackoffTime)
    /\ UNCHANGED <<connected, subscribed, codecVars, wireVars, sessVars, noteVars,
                   sysVars>>

BackoffNext ==
    \/ RunStart
    \/ DisconnectDone("ok")
    \/ SettleDone
    \/ \E o \in TransportOutcomes : ConnectDone(o)
    \/ NotifyDone("ok")
    \/ SupWriteDone("ok")
    \/ HalfSleep1Done
    \/ HalfSleep2Done
    \/ PollSleepDone
    \/ BackoffSleepDone
    \/ BackoffTick

SpecBackoff == BackoffInit /\ [][BackoffNext]_vars

\* SpecSilent: as SpecBackoff, the event loop fair to the task: a transport
\* call the task awaits ends, and a sleep ends when its time has come
SpecSilent == SpecBackoff /\ WF_vars(BackoffNext)

---------------------------------------------------------------------------
(* SpecApi: the session's operations called one at a time by a caller of   *)
(* its own (no background task): async_connect, async_get_status and       *)
(* async_disconnect in any order, at any time, on a link that may drop and *)
(* a controller that stays silent.                                          *)

ApiEpoch == 10

\* as SysConfig, the consumption fetched again after more than a second
ApiConfig == [SysConfig EXCEPT !.consumption_interval = 1]

ApiInit == SetUpAt(ApiConfig, ApiEpoch, "idle")

\* await thermostat.async_connect() is called: it runs to the await of
\* BleakClient.connect
ApiConnect ==
    /\ pc = "idle"
    /\ Commit([Cur EXCEPT
                 !.ctx = "api",
                 !.clast = <<[attempt |-> 0,
                              reset |-> IF clast = <<>> THEN 0 ELSE clast[1].reset,
                              result |-> "pending"]>>,
                 !.pc = "cn_open"])
    /\ UNCHANGED <<linkVars, last_notification_time, restVars>>

\* await thermostat.async_get_status() is called: it runs to its first await
ApiGetStatus ==
    /\ pc = "idle"
    /\ Commit(GetStatus([Cur EXCEPT !.ctx = "api"], is_connected,
                        last_notification_time))
    /\ UNCHANGED <<linkVars, last_notification_time, restVars>>

\* await thermostat.async_disconnect() is called and ends
ApiDisconnect(o) ==
    /\ pc = "idle"
    /\ IF o = "ok"
       THEN connected' = FALSE /\ subscribed' = FALSE
       ELSE UNCHANGED <<connected, subscribed>>
    /\ Commit(Disconnected([Cur EXCEPT !.ctx = "api"], o))
    /\ UNCHANGED <<now, last_notification_time, restVars>>

ApiNext ==
    \/ ApiConnect
    \/ ApiGetStatus
    \/ \E o \in TransportOutcomes : ApiDisconnect(o)
    \/ \E o \in TransportOutcomes : ConnectDone(o)
    \/ \E o \in TransportOutcomes : NotifyDone(o)
    \/ \E o \in TransportOutcomes : SupWriteDone(o)
    \/ HalfSleep1Done
    \/ HalfSleep2Done
    \/ LinkDrop
    \/ SysTick

SpecApi == ApiInit /\ [][ApiNext]_vars

---------------------------------------------------------------------------
(* SpecUnload: the background task and async_unload_entry on one session.  *)
(* The source cancels nothing itself: the task was handed to the config    *)
(* entry (entry.async_create_background_task), which cancels it when the   *)
(* entry is unloaded, at a point async_unload_entry does not control: here  *)
(* at any time once the platforms are unloaded.                             *)

\* the fields a step of async_unload_entry leaves alone
unloadRest == <<codecVars, wireVars, sessVars, noteVars, cfg, supVars, writeVars,
                ucall, logVars>>

\* async_unload_entry is called: it awaits async_unload_platforms
UnloadStart ==
    /\ upc = "idle"
    /\ upc' = "ul_platforms"
    /\ UNCHANGED <<linkVars, unloadRest>>

\* async_unload_platforms ends: with unload_ok the session is popped and
\* async_disconnect runs to the await of BleakClient.disconnect; without,
\* async_unload_entry returns False
UnloadPlatformsDone(unload_ok) ==
    /\ upc = "ul_platforms"
    /\ upc' = IF unload_ok THEN "ul_disc" ELSE "idle"
    /\ UNCHANGED <<linkVars, unloadRest>>

\* await thermostat.async_disconnect() ends: the transport is closed, or
\* the exception leaves async_unload_entry
UnloadDisconnectDone(o) ==
    /\ upc = "ul_disc"
    /\ IF o = "ok"
       THEN connected' = FALSE /\ subscribed' = FALSE /\ upc' = "unloaded"
       ELSE UNCHANGED <<connected, subscribed>> /\ upc' = "ul_error"
    /\ UNCHANGED <<now, unloadRest>>

\* the config entry cancels its background task: CancelledError is raised at
\* the await the task is suspended at, which no except clause of the task
\* catches; async with self._lock releases the lock on the way out
TaskCancelled ==
    /\ upc \in {"ul_disc", "unloaded"}
    /\ pc \notin {"cancelled", "failed"}
    /\ Commit([Cur EXCEPT !.pc = "cancelled", !.wake = 0, !.gs_now = 0, !.scmd = "",
                          !.lock = IF lock = "sup" THEN "free" ELSE lock,
                          !.lockq = SelectSeq(lockq, LAMBDA t : t # "sup"),
                          !.inflight = inflight \ {"sup"}])
    /\ UNCHANGED <<linkVars, last_notification_time, restVars>>

UnloadStep ==
    \/ UnloadStart
    \/ \E unload_ok \in BOOLEAN : UnloadPlatformsDone(unload_ok)
    \/ \E o \in TransportOutcomes : UnloadDisconnectDone(o)
    \/ TaskCancelled

UnloadNext == SupStep \/ UnloadStep \/ SysTick

SpecUnload == Init /\ [][UnloadNext]_vars

---------------------------------------------------------------------------
(* Properties of the wire codec.                                            *)

\* the checksum the framing puts in the last byte of p
FrameChecksum(p) == _cksum(Slice(p, 1, Len(p) - 1))

\* C1: framing codec round trip.  A buffer f of two or more bytes that
\* _decode accepted is given back by _encode of the decoded bytes, byte for
\* byte; a buffer p of two or more bytes whose last byte is the checksum of
\* p[1:-1] is accepted again by _decode after _encode, and is given back.
C1_RoundTrip ==
    \A i \in 1..Len(chist) :
        LET h == chist[i]
        IN  /\ (h.op = "decode" /\ h.exc = "none" /\ Len(h.arg) >= 2)
                => (_encode(h.ret).exc = "none" /\ _encode(h.ret).ret = h.arg)
            /\ (h.op = "encode" /\ Len(h.arg) >= 2
                    /\ h.arg[Len(h.arg)] = FrameChecksum(h.arg))
                => (/\ h.exc = "none"
                    /\ _decode(h.ret).exc = "none"
                    /\ _decode(h.ret).ret = h.arg)

\* a frame was decoded, the decoded bytes encoded, and the result decoded
\* again: both directions of the round trip have run
C1_Witness ==
    /\ Len(chist) = 3
    /\ chist[1].op = "decode" /\ chist[1].exc = "none" /\ Len(chist[1].arg) >= 2
    /\ chist[2].op = "encode" /\ chist[2].arg = chist[1].ret
    /\ chist[2].ret = chist[1].arg
    /\ chist[3].op = "decode" /\ chist[3].arg = chist[2].ret
    /\ chist[3].ret = chist[2].arg

\* the de-obfuscation as the specification words it: XOR 105 on every byte,
\* the chain undone from the last index down to 1, XOR 202 on byte 0
Deobfuscated(f) ==
    [i \in 1..Len(f) |->
        IF i = 1 THEN Xor(Xor(f[1], 105), 202)
        ELSE Xor(Xor(f[i], 105), Xor(f[i - 1], 105))]

\* the last de-obfuscated byte is the sum modulo 256 of bytes 1 through the
\* second-to-last
ChecksumMatches(f) ==
    /\ Len(f) >= 1
    /\ Deobfuscated(f)[Len(f)]
         = SumRange(Deobfuscated(f), 2, Len(f) - 1)

\* C2: _decode accepts a buffer exactly when its last de-obfuscated byte is
\* the checksum of the bytes before it; every other buffer fails with the
\* checksum error, returns no bytes and is left as the caller passed it.
C2_AcceptsExactly ==
    \A i \in 1..Len(chist) :
        LET h == chist[i]
        IN  h.op = "decode" =>
                IF ChecksumMatches(h.arg)
                THEN h.exc = "none" /\ h.ret = Deobfuscated(h.arg)
                ELSE /\ h.exc = "ValueError" /\ h.msg = "Bad Checksum"
                     /\ h.ret = <<>>
                     /\ h.after = h.arg

---------------------------------------------------------------------------
(* Properties of packets and parcels.                                       *)

\* the call at hand parsed a type-129 packet with a payload of six bytes or
\* more, byte 0 = 0b00100001 and bits 5-7 of byte 1 = 010
StatusExampleParsed ==
    /\ wcall # <<>>
    /\ wcall[1].op = "Packet.parse"
    /\ Len(wcall[1].arg) >= 8
    /\ wcall[1].arg[1] = PTYPE_STATUS
    /\ wcall[1].arg[3] = 33
    /\ Bits5to7(wcall[1].arg[4]) = 2

\* the fields of the example other than the fan speed: power on, mode heat,
\* target (payload[4] - 70) / 2, current (payload[5] - 70) / 2
StatusExampleFields ==
    /\ wcall[1].exc = "none"
    /\ wcall[1].pkt.kind = "Status"
    /\ wcall[1].pkt.power = 1
    /\ wcall[1].pkt.mode = "heat"
    /\ wcall[1].pkt.temp = wcall[1].arg[7] - 70
    /\ wcall[1].pkt.curtemp = wcall[1].arg[8] - 70

\* C3 (as the code has it): a Status packet with payload byte 0 = 0b00100001
\* and bits 5-7 of payload byte 1 = 010 decodes to power on, mode heat,
\* fan auto, and the two temperatures by (byte - 70) / 2.
C3_StatusDecodeAuto ==
    StatusExampleParsed => (StatusExampleFields /\ wcall[1].pkt.fanspeed = "auto")

\* the packet 129 with payload 33, 64, 0, 0, 102, 112, ... was parsed: fan
\* bits 010, target 16.0, current 21.0
C3_Witness ==
    /\ StatusExampleParsed
    /\ wcall[1].arg[4] = 64
    /\ wcall[1].exc = "none"
    /\ wcall[1].pkt.temp = 32
    /\ wcall[1].pkt.curtemp = 42

\* C3 as stated: a Status packet with payload byte 0 = 0b00100001 and bits
\* 5-7 of payload byte 1 = 010 decodes to power on, mode heat, fan low, and
\* the two temperatures by (byte - 70) / 2.
C3_StatusDecodeLow ==
    StatusExampleParsed => (StatusExampleFields /\ wcall[1].pkt.fanspeed = "low")

\* the call at hand parsed the frame of TemperatureSet(c), c a multiple of
\* 0.5 in 16..32
TemperatureSetParsed ==
    /\ wcall # <<>>
    /\ wcall[1].op = "Parcel.parse"
    /\ wcall[1].of.op = "TemperatureSet"
    /\ wcall[1].of.arg \in {5 * k : k \in 32..64}

\* C9: for every TemperatureSet(c), c a multiple of 0.5 in 16..32, parsing
\* the serialised parcel succeeds and yields a SET parcel from the
\* application to the indoor unit with exactly two type-76 packets, in
\* order, with payloads [9, 0, t, 0] and [10, 0, t, 0], t = 2c + 70.
C9_TemperatureSetRoundTrip ==
    TemperatureSetParsed =>
        LET t == (wcall[1].of.arg \div 5) + 70
        IN  /\ wcall[1].exc = "none"
            /\ wcall[1].parcel.src = "APP"
            /\ wcall[1].parcel.dst = "I_UNIT1"
            /\ wcall[1].parcel.op = "SET"
            /\ wcall[1].parcel.packets
                 = <<[kind |-> "Packet", ptype |-> 76, pdata |-> <<9, 0, t, 0>>],
                     [kind |-> "Packet", ptype |-> 76, pdata |-> <<10, 0, t, 0>>]>>

\* the frame of TemperatureSet(22.0) was parsed: payload[2] = 114
C9_Witness ==
    /\ TemperatureSetParsed
    /\ wcall[1].of.arg = 220
    /\ wcall[1].exc = "none"
    /\ wcall[1].parcel.packets[1].pdata[3] = 114
    /\ wcall[1].parcel.packets[2].pdata[3] = 114

---------------------------------------------------------------------------
(* Properties of the notification handler.                                  *)

\* x mod 48
Mod48(x) == x % 48

\* the values of the batch in the frame the handler was given last, <<>>
\* when the frame is no single batch
BatchValues ==
    Let(ParcelParse(nlast.data), LAMBDA r :
        IF r.exc = "none" /\ Len(r.parcel.packets) = 1
              /\ r.parcel.packets[1].kind = "Consumption"
              /\ r.parcel.packets[1].values # <<>>
        THEN r.parcel.packets[1].values[1]
        ELSE <<>>)

BatchPos == ParcelParse(nlast.data).parcel.packets[1].pos[1]

\* C4: consumption ring indexing.  A batch at position pos handled while
\* current_hour = h and current_index = x has its i-th value written to
\* slot ((h + 24 - 1 - x) mod 48 + pos + i) mod 48, every value of the
\* batch and no other slot, so every slot written lies in 0..47.
C4_RingIndexing ==
    (nlast # <<>> /\ curhour # <<>> /\ curindex # <<>>) =>
        Let(BatchValues, LAMBDA values :
            values # <<>> =>
                /\ nlast.exc = "none"
                /\ Len(nlast.events) = Len(values)
                /\ \A i \in 0..(Len(values) - 1) :
                     LET e == nlast.events[i + 1]
                     IN  /\ e.kind = "slot"
                         /\ e.i = i
                         /\ e.slot = Mod48(Mod48(curhour[1] + 24 - 1 - curindex[1])
                                           + BatchPos + i)
                         /\ e.slot \in 0..47
                         /\ e.value = values[i + 1]
                         /\ consumption[e.slot] = e.value)

\* the fixture: h = 5, x = 2, a batch at position 0 with values 1.0, 2.0
\* has been written to slots 26 and 27
C4_Fixture ==
    /\ nlast # <<>>
    /\ curhour = <<5>> /\ curindex = <<2>>
    /\ Len(nlast.events) = 2
    /\ nlast.events[1].pos = 0
    /\ nlast.events[1].slot = 26 /\ nlast.events[2].slot = 27
    /\ consumption[26] = 10 /\ consumption[27] = 20

\* C5: temperature plausibility.  With validation enabled the reading of a
\* Status notification is replaced by the previously accepted value exactly
\* when a reading was accepted before, the reading differs from it by more
\* than the threshold, and less than the validation window has passed since
\* that accepted reading; otherwise the reading is published as it is.
C5_Plausibility ==
    (nlast # <<>> /\ nlast.exc = "none") =>
        \A k \in 1..Len(nlast.events) :
            LET e == nlast.events[k]
                replaced ==
                    /\ e.prev # <<>>
                    /\ Abs(e.reading - e.prev[1]) > temp_change_threshold
                    /\ nlast.at - e.prev[2] < temp_validation_window
            IN  e.kind = "status" =>
                    /\ e.substituted = replaced
                    /\ e.published = IF replaced THEN e.prev[1] ELSE e.reading

---------------------------------------------------------------------------
(* Properties of the session's liveness check and of the supervisor.        *)

\* the time the last notification was delivered, 0 when none was
LastNotified == IF nlast = <<>> THEN 0 ELSE nlast.at

\* the time an async_connect last reset the timestamp, 0 when none did
LastReset == IF clast = <<>> THEN 0 ELSE clast[1].reset

Later(a, b) == IF a > b THEN a ELSE b

\* C6 (as the code has it): once a notification was received,
\* is_receiving_notifications is true if and only if less than
\* notification_timeout seconds have passed since the later of the last
\* notification and the last reset of the timestamp by a Connect().
C6_LiveSinceLastSign ==
    nlast # <<>> =>
        (is_receiving_notifications
            <=> now - Later(LastNotified, LastReset) < cfg.notification_timeout)

\* a Connect() has reset the timestamp after the last notification, and the
\* session counts as live although the notification is a timeout or more old
C6_Witness ==
    /\ nlast # <<>>
    /\ LastReset > LastNotified
    /\ now - LastNotified >= cfg.notification_timeout
    /\ is_receiving_notifications

\* C6 as stated: once a notification was received at time T,
\* is_receiving_notifications is true if and only if now - T is less than
\* notification_timeout.
C6_LiveSinceNotification ==
    nlast # <<>> =>
        (is_receiving_notifications
            <=> now - LastNotified < cfg.notification_timeout)

\* C7 (as the code has it): while no notification has ever been delivered,
\* is_receiving_notifications is true if and only if no Connect() has reset
\* the timestamp yet or less than notification_timeout seconds have passed
\* since the last reset.
C7_SilentSessionLive ==
    nlast = <<>> =>
        (is_receiving_notifications
            <=> (LastReset = 0 \/ now - LastReset < cfg.notification_timeout))

\* no notification was ever delivered, a Connect() has reset the timestamp,
\* and the silence since has lasted the timeout: the session is not live
C7_Witness ==
    /\ nlast = <<>>
    /\ LastReset # 0
    /\ now - LastReset >= cfg.notification_timeout
    /\ ~is_receiving_notifications

\* C7 as stated: in every state in which no notification has ever been
\* delivered, is_receiving_notifications is true, whatever the time elapsed
\* and however many Connect() calls were made.
C7_SilentSessionAlwaysLive ==
    nlast = <<>> => is_receiving_notifications

\* C8: reconnect backoff.  In one run of connect-with-retry the wait after
\* the n-th failed Connect() (n from 1 in every run) is
\* min(base_delay * 2^(n-1), max_delay) and never exceeds max_delay; a wait
\* is under way only after as many failures as waits.
C8_Backoff ==
    /\ \A n \in 1..Len(waits) :
        /\ waits[n] = (IF cfg.reconnect_base_delay * (2 ^ (n - 1))
                            < cfg.reconnect_max_delay
                       THEN cfg.reconnect_base_delay * (2 ^ (n - 1))
                       ELSE cfg.reconnect_max_delay)
        /\ waits[n] <= cfg.reconnect_max_delay
    /\ pc = "rc_sleep" => (Len(waits) = attempt /\ wake - waits[attempt] <= now)

\* base 2, max 30: six Connect() attempts of one run have failed and the
\* waits were 2, 4, 8, 16, 30, 30
C8_Witness ==
    /\ cfg.reconnect_base_delay = 2 /\ cfg.reconnect_max_delay = 30
    /\ waits = <<2, 4, 8, 16, 30, 30>>
    /\ pc = "rc_sleep"

\* C10: a target outside 16..32 degrees fails with the invalid-temperature
\* error: no TemperatureSet parcel is built for it and nothing is written
\* to the transport.
C10_OutOfRangeRefused ==
    \A k \in 1..Len(ucall) :
        ucall[k].temp \notin 160..320 =>
            /\ ucall[k].result = "ServiceValidationError"
            /\ ~ucall[k].built
            /\ (wlast = <<>> \/ wlast[1].by # "user")

---------------------------------------------------------------------------
(* Properties of the session's write path.                                  *)

\* the tasks waiting for the lock
Waiting == {lockq[i] : i \in 1..Len(lockq)}

\* C11: write serialisation.  Whatever the interleaving of the polling
\* loop's requests and a user's command on one session, at most one
\* write_gatt_char is in flight; the writer in flight is the holder of the
\* lock, and a writer that waits for the lock has no write in flight.
C11_WriteSerialised ==
    /\ Cardinality(inflight) <= 1
    /\ inflight = (IF lock = "free" THEN {} ELSE {lock})
    /\ Waiting \cap inflight = {}
    /\ ("sup" \in inflight) <=> (pc = "w_write")
    /\ ("user" \in inflight) <=> (upc = "w_write")
    /\ ("sup" \in Waiting) <=> (pc = "w_lock")
    /\ ("user" \in Waiting) <=> (upc = "w_lock")

\* the user's write is in flight and the polling loop waits for the lock
C11_Witness ==
    /\ inflight = {"user"}
    /\ pc = "w_lock"
    /\ lockq = <<"sup">>

\* the set_temperature call made in this step called _async_write_command
UserSends ==
    /\ Len(ucall') = Len(ucall) + 1
    /\ ucall'[Len(ucall')].built

\* the polling loop resumes from one of the sleeps of async_get_status and
\* calls _async_write_command in this step
SupSends == pc \in {"gs_sleep1", "gs_sleep2"} /\ pc' # pc

\* C12: a command sent while the transport is not connected fails with the
\* session's exception "Not Connected"; nothing is written to the transport
\* and the write lock is neither taken nor waited for.
C12_NotConnectedRefused ==
    [][/\ (UserSends /\ ~connected) =>
            /\ ucall'[Len(ucall')].result = "PanasonicHCException"
            /\ ucall'[Len(ucall')].msg = "Not Connected"
            /\ upc' = "idle"
            /\ UNCHANGED writeVars
       /\ (SupSends /\ ~connected) =>
            /\ oplast' # <<>>
            /\ oplast'[1].exc = "PanasonicHCException"
            /\ oplast'[1].msg = "Not Connected"
            /\ pc' \notin {"w_lock", "w_write"}
            /\ UNCHANGED writeVars]_vars

\* the link was lost while async_get_status slept after its status request:
\* the consumption request that followed was refused, the status request is
\* still the last write
C12_Witness ==
    /\ oplast # <<>>
    /\ oplast[1].exc = "PanasonicHCException"
    /\ oplast[1].msg = "Not Connected"
    /\ wlast # <<>>
    /\ wlast[1].by = "sup" /\ wlast[1].cmd = "StatusReq"
    /\ ~connected
    /\ lock = "free" /\ inflight = {}

---------------------------------------------------------------------------
(* Properties of the session's operations.                                  *)

\* the idle caller calls async_get_status in this step: the call reaches the
\* await of its first write, or it raises before any await
GetStatusCalled ==
    /\ pc = "idle"
    /\ \/ pc' = "w_write" /\ scmd' = "StatusReq"
       \/ pc' = "idle" /\ oplast' # oplast /\ oplast'[1].op = "get_status"

StaleConnection ==
    <<[op |-> "get_status", exc |-> "PanasonicHCException",
       msg |-> "No recent notifications"]>>

\* C13: async_get_status called while the transport reports connected and
\* is_receiving_notifications is false raises the session's exception "No
\* recent notifications"; it writes nothing to the transport and leaves
\* last_update as it was.
C13_StaleRefused ==
    [][(GetStatusCalled /\ connected /\ ~is_receiving_notifications) =>
            /\ oplast' = StaleConnection
            /\ pc' = "idle"
            /\ UNCHANGED <<writeVars, last_update>>]_vars

\* the call was refused on a link that is up, a timeout or more after the
\* last reset of the timestamp
C13_Witness ==
    /\ oplast = StaleConnection
    /\ pc = "idle"
    /\ connected
    /\ last_notification_time # 0
    /\ now - last_notification_time >= cfg.notification_timeout

\* the async_connect in progress ends in this step with an exception
ConnectFails ==
    /\ clast # <<>> /\ clast[1].result = "pending"
    /\ clast'[1].attempt = clast[1].attempt
    /\ clast'[1].result \notin {"pending", "ok"}

\* C14: whenever async_connect fails, at the transport's connect, at
\* start_notify or at the first status request, it fails with the session's
\* exception and the session is disconnected afterwards.
C14_ConnectFailsDisconnected ==
    [][ConnectFails =>
            /\ clast'[1].result = "PanasonicHCException"
            /\ ~connected']_vars

---------------------------------------------------------------------------
(* Properties of the supervisor.                                            *)

\* the awaits inside a session operation
OperationPcs ==
    {"rc_disc", "cn_open", "cn_notify", "w_lock", "w_write", "gs_sleep1", "gs_sleep2"}

\* the awaits of connect-with-retry
ReconnectPcs ==
    {"rc_disc", "rc_settle", "rc_sleep", "cn_open", "cn_notify", "w_lock", "w_write",
     "gs_sleep1", "gs_sleep2"}

\* the task takes a step in which the session operation it awaited ends:
\* the task moves, and not to a later await of the same operation
OperationEnds ==
    /\ pc \in OperationPcs
    /\ <<pc, ctx, scmd>>' # <<pc, ctx, scmd>>
    /\ ~(ctx' = ctx /\ pc' \in {"cn_notify", "w_lock", "w_write", "gs_sleep1",
                                 "gs_sleep2"})

OperationFails == OperationEnds /\ oplast' # <<>> /\ oplast'[1].exc # "none"

\* C15: no failure of async_connect, async_disconnect or async_get_status
\* ends the supervisor: after each the task is at the sleep before the next
\* poll, or inside connect-with-retry.
C15_LoopSurvives ==
    [][OperationFails =>
            \/ ctx' = "poll" /\ pc' = "lp_sleep"
            \/ ctx' = "reconnect" /\ pc' \in ReconnectPcs]_vars

\* a status request of the polling loop failed with an exception that is
\* not the session's, on a link that is up: the task has sent the
\* disconnected signal and is disconnecting to connect again
C15_Witness ==
    /\ oplast = <<[op |-> "get_status", exc |-> "Other", msg |-> ""]>>
    /\ connected
    /\ ctx = "reconnect" /\ pc = "rc_disc"
    /\ signals # <<>> /\ signals[Len(signals)] = "disconnected"

\* what the session has accumulated from the controller
Accumulated == <<status, consumption, curhour, curindex>>

\* the task, a session operation, a write or the link takes a step
OperationStep ==
    \/ supVars' # supVars
    \/ writeVars' # writeVars
    \/ logVars' # logVars
    \/ <<connected, subscribed>>' # <<connected, subscribed>>

\* C16: async_connect, async_disconnect, async_get_status,
\* _async_write_command and the polling loop leave the status, the 48
\* consumption slots, the current hour and the current index as they are;
\* a step that changes one of them is a notification being handled.
C16_AccumulatedKept ==
    [][/\ OperationStep => UNCHANGED Accumulated
       /\ Accumulated' # Accumulated =>
               nlast' # <<>> /\ nlast'.at = now /\ last_notification_time' = now]_vars

\* a status arrived, the session went silent, and the task has disconnected
\* and connected again since: the status is still the one that arrived
C16_Witness ==
    /\ status # <<>>
    /\ nlast # <<>>
    /\ oplast # <<>> /\ oplast[1].op = "connect" /\ oplast[1].exc = "none"
    /\ clast # <<>> /\ clast[1].result = "ok" /\ clast[1].reset > nlast.at
    /\ \E i \in 1..Len(signals) : signals[i] = "disconnected"

---------------------------------------------------------------------------
(* Properties of the notification handler.                                  *)

\* C17: a notification that changes the status, the current hour, the
\* current index or a consumption slot has every registered callback run
\* exactly once; a notification that changes none of them runs no callback.
C17_CallbackPerUpdate ==
    [][nlast' # nlast =>
            nlast'.callbacks = IF Accumulated' # Accumulated
                               THEN N_UPDATE_CALLBACKS ELSE 0]_vars

\* PanasonicBLEParcel.parse raises on the frame
ParseFails(data) == ParcelParse(data).exc # "none"

\* C18: every frame that arrives sets the last-notification timestamp to
\* the time of arrival, also a frame PanasonicBLEParcel.parse refuses; such
\* a frame changes neither the status, the consumption slots, the current
\* hour nor the current index, runs no callback, and its exception stays
\* inside the handler: it is logged and nothing else of the system moves.
C18_BadFrameDropped ==
    [][nlast' # nlast =>
            /\ last_notification_time' = now
            /\ nlast'.at = now
            /\ ParseFails(nlast'.data) =>
                    /\ UNCHANGED Accumulated
                    /\ UNCHANGED <<last_temp, last_temp_time, last_update>>
                    /\ nlast'.callbacks = 0
                    /\ nlast'.exc # "none"
                    /\ UNCHANGED <<linkVars, sysVars>>]_vars

\* a status arrived, and later a frame the parser refused: the timestamp is
\* the bad frame's, the status is still the one that arrived
C18_Witness ==
    /\ nlast # <<>>
    /\ ParseFails(nlast.data)
    /\ nlast.exc = "ValueError" /\ nlast.callbacks = 0
    /\ status # <<>> /\ accepted # <<>>
    /\ accepted[2] < nlast.at
    /\ last_notification_time = nlast.at

---------------------------------------------------------------------------
(* Properties of the polling loop.                                          *)

\* the async_get_status of the polling loop ends with the session's own
\* exception while is_connected is true
GetStatusFailsConnected ==
    /\ ctx = "poll"
    /\ OperationFails
    /\ oplast'[1].op = "get_status"
    /\ oplast'[1].exc = "PanasonicHCException"
    /\ connected /\ connected'

\* C19: when async_get_status fails in the polling loop on a link that
\* still reports connected, the task sends the disconnected signal and
\* enters connect-with-retry in the same step, without the sleep of
\* status_update_interval.
C19_FailedPollReconnects ==
    [][GetStatusFailsConnected =>
            /\ ctx' = "reconnect" /\ pc' = "rc_disc"
            /\ signals' # <<>> /\ signals'[Len(signals')] = "disconnected"]_vars

\* the sleep of status_update_interval ends
IterationAfterSleep == pc = "lp_sleep" /\ pc' # "lp_sleep"

\* connect-with-retry returns: its async_connect has returned
ReconnectReturns ==
    /\ ctx = "reconnect"
    /\ OperationEnds
    /\ oplast' = <<[op |-> "connect", exc |-> "none", msg |-> ""]>>

\* the signals sent so far, after one more
Sent(sigs, name) == Signal([signals |-> sigs], name).signals

\* C20: an iteration of the polling loop that finds is_connected or
\* is_receiving_notifications false sends disconnected once and enters
\* connect-with-retry, with no status request begun; and when
\* connect-with-retry returns, the next iteration starts in the same step,
\* not after a sleep of status_update_interval.
C20_UnhealthyIterationReconnects ==
    [][/\ (/\ IterationAfterSleep \/ ReconnectReturns
           /\ ~is_connected \/ ~is_receiving_notifications) =>
               /\ signals' = Sent(IF ReconnectReturns
                                  THEN Sent(signals, "connected") ELSE signals,
                                  "disconnected")
               /\ ctx' = "reconnect"
               /\ pc' = IF is_connected THEN "rc_disc" ELSE "cn_open"
               /\ attempt' = IF is_connected THEN 0 ELSE 1
               /\ scmd' = ""
               /\ IterationAfterSleep => UNCHANGED <<writeVars, last_update>>
       /\ ReconnectReturns => pc' \notin {"lp_sleep", "rc_sleep", "rc_settle"}]_vars

\* the sleep ended on a link that is up and has gone silent: the task has
\* sent disconnected after a poll that had returned, and is disconnecting
C20_Witness ==
    /\ ctx = "reconnect" /\ pc = "rc_disc" /\ attempt = 0
    /\ is_connected /\ ~is_receiving_notifications
    /\ oplast = <<[op |-> "get_status", exc |-> "none", msg |-> ""]>>
    /\ Len(signals) = 2
    /\ signals[1] = "connected" /\ signals[2] = "disconnected"

---------------------------------------------------------------------------
(* Properties of the packets and of what the handler does with them.        *)

\* C21: a consumption notification is handled without an error in every
\* state of the session: an hour report alone, an index report alone, or a
\* batch of values alone, also a batch that arrives before the hour or the
\* index is known; every value of a batch is written.
C21_PartialUpdatesApplied ==
    nlast # <<>> =>
        /\ nlast.exc = "none"
        /\ Len(nlast.events) = Len(BatchValues)

\* C22: the reference of the temperature validation is the value and the
\* arrival time of the most recent accepted reading; a rejected reading
\* changes neither.
C22_ReferenceIsLastAccepted ==
    accepted # <<>> =>
        /\ last_temp = <<accepted[1]>>
        /\ last_temp_time = accepted[2]

\* the call at hand parsed a type-129 packet with a payload of five bytes
\* or more whose mode and fan bits are values of MODE and FANSPEED
StatusPacketParsed ==
    /\ wcall # <<>>
    /\ wcall[1].op = "Packet.parse"
    /\ Len(wcall[1].arg) >= 7
    /\ wcall[1].arg[1] = PTYPE_STATUS
    /\ wcall[1].arg[2] = Len(wcall[1].arg) - 2
    /\ HasValue(MODE, Bits5to7(wcall[1].arg[3]))
    /\ HasValue(FANSPEED, Bits5to7(wcall[1].arg[4]))

\* C23: a type-129 packet with a payload of five bytes parses to a Status
\* packet with current temperature 0; with six bytes or more the current
\* temperature is (payload[5] - 70) / 2 and powersave is the sixth byte
\* from the end of the payload.
C23_ShortStatusParses ==
    StatusPacketParsed =>
        LET n == Len(wcall[1].arg) - 2
        IN  /\ wcall[1].exc = "none"
            /\ wcall[1].pkt.kind = "Status"
            /\ wcall[1].pkt.curtemp = IF n >= 6 THEN wcall[1].arg[8] - TEMP_OFFSET ELSE 0
            /\ n >= 6 => wcall[1].pkt.powersave = wcall[1].arg[2 + n - 5]

\* C24: a type-33 packet parses to an outdoor-temperature packet with
\* temp = payload[1] / 10.
C24_OutdoorTempParses ==
    (/\ wcall # <<>>
     /\ wcall[1].op = "Packet.parse"
     /\ Len(wcall[1].arg) >= 4
     /\ wcall[1].arg[1] = PTYPE_OUTDOOR_TEMP) =>
        /\ wcall[1].exc = "none"
        /\ wcall[1].pkt.kind = "OutdoorTemp"
        /\ wcall[1].pkt.temp = wcall[1].arg[4]

\* the call at hand parsed a type-105 packet whose payload starts with
\* 2, 0, 19 and holds its sub-kind byte
ConsumptionParsed ==
    /\ wcall # <<>>
    /\ wcall[1].op = "Packet.parse"
    /\ Len(wcall[1].arg) >= 6
    /\ wcall[1].arg[1] = PTYPE_CONSUMPTION
    /\ wcall[1].arg[2] = Len(wcall[1].arg) - 2
    /\ <<wcall[1].arg[3], wcall[1].arg[4], wcall[1].arg[5]>> = CONSUMPTION_PREFIX

\* the packet parsed is a consumption packet with these four fields
ConsumptionIs(hour, index, pos, values) ==
    /\ wcall[1].exc = "none"
    /\ wcall[1].pkt.kind = "Consumption"
    /\ wcall[1].pkt.hour = hour
    /\ wcall[1].pkt.index = index
    /\ wcall[1].pkt.pos = pos
    /\ wcall[1].pkt.values = values

\* the first k two-byte values after the sub-kind byte, in tenths
PairValues(k) ==
    [j \in 1..k |-> (wcall[1].arg[5 + 2 * j] * 256) + wcall[1].arg[6 + 2 * j]]

\* the hour, the index, any other sub-kind, and any other prefix, as the
\* claim and the code both have them
ConsumptionOtherKinds ==
    /\ ConsumptionParsed =>
          LET n == Len(wcall[1].arg) - 2
              sub == wcall[1].arg[6]
          IN  /\ (sub = 1 /\ n >= 9) =>
                      ConsumptionIs(<<wcall[1].arg[11]>>, <<>>, <<>>, <<>>)
              /\ (sub = 2 /\ n >= 12) =>
                      ConsumptionIs(<<>>, <<wcall[1].arg[14]>>, <<>>, <<>>)
              /\ (sub = 0 \/ sub > 14) => ConsumptionIs(<<>>, <<>>, <<>>, <<>>)
    /\ (/\ wcall # <<>>
        /\ wcall[1].op = "Packet.parse"
        /\ Len(wcall[1].arg) >= 5
        /\ wcall[1].arg[1] = PTYPE_CONSUMPTION
        /\ wcall[1].arg[2] = Len(wcall[1].arg) - 2
        /\ <<wcall[1].arg[3], wcall[1].arg[4], wcall[1].arg[5]>> # CONSUMPTION_PREFIX) =>
            /\ wcall[1].exc = "none"
            /\ wcall[1].pkt.kind = "Packet"

\* C25 (as the code has it): a type-105 packet with prefix 2, 0, 19 decodes
\* by its sub-kind: 1 sets only the hour, 2 only the index, 3..14 the
\* position (sub-kind - 3) * 4 and one value per byte pair after the
\* sub-kind when those bytes come in whole pairs, and is refused with
\* IndexError when a byte is left over; any other sub-kind sets nothing; a
\* type-105 packet with another prefix is a generic packet.
C25_ConsumptionDecode ==
    /\ ConsumptionOtherKinds
    /\ ConsumptionParsed =>
          LET n == Len(wcall[1].arg) - 2
              sub == wcall[1].arg[6]
          IN  (sub >= 3 /\ sub <= 14) =>
                  IF (n - 4) % 2 = 0
                  THEN ConsumptionIs(<<>>, <<>>, <<(sub - 3) * 4>>,
                                     <<PairValues((n - 4) \div 2)>>)
                  ELSE wcall[1].exc = "IndexError"

\* the batch 2, 0, 19, 4, 1, 44 was parsed: position 4, one value, 30.0
C25_Witness ==
    /\ ConsumptionParsed
    /\ wcall[1].arg[6] = 4
    /\ wcall[1].exc = "none"
    /\ wcall[1].pkt.pos = <<4>>
    /\ wcall[1].pkt.values = <<<<300>>>>

\* C25 as stated: as above, a batch yielding one value for every whole byte
\* pair after the sub-kind, whatever the length of the payload.
C25_ConsumptionDecodeAnyLength ==
    /\ ConsumptionOtherKinds
    /\ ConsumptionParsed =>
          LET n == Len(wcall[1].arg) - 2
              sub == wcall[1].arg[6]
          IN  (sub >= 3 /\ sub <= 14) =>
                  ConsumptionIs(<<>>, <<>>, <<(sub - 3) * 4>>,
                                <<PairValues((n - 4) \div 2)>>)

\* C26: a notification holding a status packet whose mode bits are outside
\* 1..5 or whose fan bits are outside 2..5 is refused with ValueError (no
\* such member of the enum), and changes neither the status nor the
\* consumption state, also when packets that parse come before it.
C26_UnknownEnumDropsFrame ==
    [][(nlast' # nlast /\ nlast'.data \in BadEnumFrames) =>
            /\ nlast'.exc = "ValueError"
            /\ nlast'.msg \in {"not a valid MODE", "not a valid FANSPEED"}
            /\ nlast'.callbacks = 0
            /\ UNCHANGED Accumulated]_vars

\* the hour report followed by a status report with fan bits 7 arrived
\* after a good status: the hour is still unknown, the status still there
C26_Witness ==
    /\ nlast # <<>>
    /\ nlast.data = DeviceFrame(<<HourReport(5), BadFanReport>>)
    /\ nlast.msg = "not a valid FANSPEED"
    /\ curhour = <<>>
    /\ status # <<>>

\* the call at hand parsed a frame the device built: its checksum is right
ParcelOfFrameParsed ==
    /\ wcall # <<>>
    /\ wcall[1].op = "Parcel.parse"
    /\ wcall[1].of.op = "frame"

\* the header of the frame parsed has the marker, and a source, a
\* destination and an operation of the enums
HeaderAccepted ==
    /\ wcall[1].of.hdr[1] = PARCEL_MARKER
    /\ HasValue(COMPONENT, wcall[1].of.hdr[2])
    /\ HasValue(COMPONENT, wcall[1].of.hdr[3])
    /\ HasValue(OPERATION, wcall[1].of.hdr[4])

\* what the header of the frame parsed makes of the parse when it is not
\* accepted: "Bad packet" for the marker, else no such member of the enum
HeaderRefused ==
    /\ wcall[1].exc = "ValueError"
    /\ wcall[1].msg = IF wcall[1].of.hdr[1] # PARCEL_MARKER THEN "Bad packet"
                      ELSE IF HasValue(COMPONENT, wcall[1].of.hdr[2])
                              /\ HasValue(COMPONENT, wcall[1].of.hdr[3])
                      THEN "not a valid OPERATION"
                      ELSE "not a valid COMPONENT"

\* the decoded bytes of the frame parsed, the packets starting after byte 5
DecodedFrame == _decode(wcall[1].arg).ret

\* the first and the second packet of the stream, as PanasonicBLEPacket.parse
\* reads them
FirstPacket == PacketParse(DecodedFrame, 5)
SecondPacket == PacketParse(DecodedFrame, FirstPacket.at)

\* the parse returned the parcel of the header with these packets
ParcelIs(packets) ==
    /\ wcall[1].exc = "none"
    /\ wcall[1].parcel.src = NameOf(COMPONENT, wcall[1].of.hdr[2])
    /\ wcall[1].parcel.dst = NameOf(COMPONENT, wcall[1].of.hdr[3])
    /\ wcall[1].parcel.op = NameOf(OPERATION, wcall[1].of.hdr[4])
    /\ wcall[1].parcel.packets = packets

\* C27 (as the code has it): PanasonicBLEParcel.parse of a frame with a
\* valid checksum raises ValueError("Bad packet") when the first byte is
\* not 0x11, and ValueError for a source, destination or operation byte
\* outside its enum; otherwise, when each of the packets the count byte
\* announces parses, it returns the parcel with exactly these packets in
\* stream order, and when one of them does not parse it raises that
\* packet's exception.
C27_ParcelParse ==
    ParcelOfFrameParsed =>
        IF ~HeaderAccepted THEN HeaderRefused
        ELSE LET count == wcall[1].of.hdr[5]
             IN  IF count = 0 THEN ParcelIs(<<>>)
                 ELSE IF FirstPacket.exc # "none"
                 THEN wcall[1].exc = FirstPacket.exc /\ wcall[1].msg = FirstPacket.msg
                 ELSE IF count = 1 THEN ParcelIs(<<FirstPacket.pkt>>)
                 ELSE IF SecondPacket.exc # "none"
                 THEN wcall[1].exc = SecondPacket.exc /\ wcall[1].msg = SecondPacket.msg
                 ELSE ParcelIs(<<FirstPacket.pkt, SecondPacket.pkt>>)

\* a notification announcing two packets, a status report and the hour
\* report, was parsed: the status first, the hour second
C27_Witness ==
    /\ ParcelOfFrameParsed
    /\ wcall[1].of.hdr[5] = 2
    /\ wcall[1].exc = "none"
    /\ Len(wcall[1].parcel.packets) = 2
    /\ wcall[1].parcel.packets[1].kind = "Status"
    /\ wcall[1].parcel.packets[2].kind = "Consumption"
    /\ wcall[1].parcel.packets[2].hour = <<7>>

\* C27 as stated: with a header that is accepted the parse returns a parcel
\* holding exactly as many packets as the count byte says.
C27_ParcelParseAlwaysReturns ==
    ParcelOfFrameParsed =>
        IF ~HeaderAccepted THEN HeaderRefused
        ELSE /\ wcall[1].exc = "none"
             /\ Len(wcall[1].parcel.packets) = wcall[1].of.hdr[5]

\* C28: every loop over a parcel that has run to its end has been given
\* all the packets of the parcel, in their order, however many loops ran
\* before it and also when another loop over the same parcel was started
\* before it ended.
C28_IterationRestartable ==
    \A l \in 1..Len(wcall[1].loops) :
        wcall[1].loops[l].done => wcall[1].loops[l].yielded = wcall[1].parcel.packets

---------------------------------------------------------------------------
(* Properties of async_connect and async_get_status.                        *)

\* an async_connect is in progress before and after the step
ConnectGoesOn ==
    /\ clast # <<>> /\ clast[1].result = "pending"
    /\ clast'[1].result = "pending"

\* the write in flight is the task's write of command cmd
SupWrites(w, cmd) ==
    /\ w # <<>>
    /\ w[1].by = "sup" /\ w[1].cmd = cmd
    /\ w[1].parcel = CommandParcel(cmd)

\* C29: async_connect opens the transport, then subscribes, then sets the
\* last-notification timestamp to now, then writes the status request: the
\* step that ends connect() only moves on to start_notify; the step that
\* ends start_notify sets the timestamp and begins the write of StatusReq;
\* and that status request is never refused for want of notifications,
\* however old the last notification is.
C29_ConnectOrder ==
    [][/\ (pc = "cn_open" /\ pc' # "cn_open" /\ ConnectGoesOn) =>
               /\ pc' = "cn_notify"
               /\ connected'
               /\ UNCHANGED <<last_notification_time, writeVars, scmd>>
               /\ clast'[1].reset = clast[1].reset
       /\ (pc = "cn_notify" /\ pc' # "cn_notify" /\ ConnectGoesOn) =>
               /\ connected /\ subscribed'
               /\ last_notification_time' = now
               /\ clast'[1].reset = now
               /\ scmd' = "StatusReq"
               /\ pc' \in {"w_write", "w_lock"}
               /\ pc' = "w_write" => SupWrites(wlast', "StatusReq") /\ "sup" \in inflight'
       /\ (pc = "cn_notify" /\ pc' # "cn_notify" /\ ~ConnectGoesOn) =>
               /\ oplast' # <<>>
               /\ oplast'[1].op = "connect"
               /\ oplast'[1].msg # "No recent notifications"]_vars

\* the last notification is notification_timeout old or older, the task
\* has connected again, reset the timestamp and its status request is
\* being written
C29_Witness ==
    /\ nlast # <<>>
    /\ now - nlast.at >= cfg.notification_timeout
    /\ clast # <<>> /\ clast[1].result = "pending" /\ clast[1].reset = now
    /\ last_notification_time = now
    /\ pc = "w_write" /\ scmd = "StatusReq"
    /\ SupWrites(wlast, "StatusReq")

\* more than consumption_interval seconds have passed since the consumption
\* was fetched last
FetchDue == now > last_update + cfg.consumption_interval

\* the write of command cmd returns and async_get_status goes on or returns
WriteReturns(cmd) ==
    /\ pc = "w_write" /\ scmd = cmd
    /\ \/ pc' \in {"gs_sleep1", "gs_sleep2"}
       \/ OperationEnds /\ oplast' # <<>> /\ oplast'[1].exc = "none"

\* C30: async_get_status on a live connection writes StatusReq first; when
\* that write returns it goes on to PowerReq and then PowerReqHour exactly
\* when more than consumption_interval seconds have passed since
\* last_update, and sets last_update when the third write has returned;
\* otherwise it returns after StatusReq and leaves last_update as it is.
C30_StatusThenConsumption ==
    [][/\ (scmd' # scmd /\ scmd' # "") =>
               \/ scmd = "" /\ scmd' = "StatusReq"
               \/ scmd = "StatusReq" /\ scmd' = "PowerReq" /\ pc = "gs_sleep1"
               \/ scmd = "PowerReq" /\ scmd' = "PowerReqHour" /\ pc = "gs_sleep2"
       /\ ("sup" \in inflight' /\ "sup" \notin inflight) => SupWrites(wlast', scmd')
       /\ WriteReturns("StatusReq") =>
               /\ UNCHANGED last_update
               /\ IF FetchDue THEN pc' = "gs_sleep1" /\ gs_now' = now
                  ELSE pc' \notin {"gs_sleep1", "gs_sleep2"} /\ scmd' = ""
       /\ WriteReturns("PowerReq") => pc' = "gs_sleep2" /\ UNCHANGED last_update
       /\ WriteReturns("PowerReqHour") =>
               /\ last_update' = gs_now
               /\ pc' \notin {"gs_sleep1", "gs_sleep2"} /\ scmd' = ""
       /\ last_update' # last_update => WriteReturns("PowerReqHour")]_vars

\* the consumption was fetched at the first connect and, more than
\* consumption_interval later, a second time: last_update is the time the
\* later status write returned
C30_Witness ==
    /\ last_update > ApiEpoch + cfg.consumption_interval
    /\ oplast # <<>> /\ oplast[1].exc = "none"
    /\ SupWrites(wlast, "PowerReqHour")
    /\ pc = "idle" /\ scmd = ""

---------------------------------------------------------------------------
(* Properties of the supervisor's signals and of its teardown.              *)

\* the async_get_status of the polling loop ends with the session's own
\* exception while is_connected is false
GetStatusFailsDisconnected ==
    /\ ctx = "poll"
    /\ OperationFails
    /\ oplast'[1].op = "get_status"
    /\ oplast'[1].exc = "PanasonicHCException"
    /\ ~connected /\ ~connected'

\* C31: when async_get_status fails in the polling loop with the session's
\* exception while the session is not connected, the task goes on to the
\* sleep of status_update_interval before the next poll and sends no
\* disconnected signal for that failure.
C31_FailedPollWhileDownContinues ==
    [][GetStatusFailsDisconnected =>
            /\ ctx' = "poll" /\ pc' = "lp_sleep"
            /\ wake' = now + cfg.status_update_interval
            /\ UNCHANGED signals]_vars

\* a run of connect-with-retry is left in this step: the task is back in
\* the polling loop, or at the start of another run
RunLeft ==
    /\ ctx = "reconnect"
    /\ \/ ctx' # "reconnect"
       \/ pc' \in {"rc_disc", "cn_open"} /\ attempt' <= attempt /\ pc' # pc

\* C32: the connected signal is sent in the step in which the async_connect
\* of a run of connect-with-retry returns, once, and in no other step; the
\* run is over with it: the task is polling again, or, on a link found down
\* or silent, has sent disconnected and started another run; and with
\* RECONNECT_MAX_ATTEMPTS = 0 a run is left in no other way.
C32_ConnectedOncePerRun ==
    [][/\ ReconnectReturns =>
               /\ clast[1].result = "pending" /\ clast'[1].result = "ok"
               /\ IF is_connected /\ is_receiving_notifications
                  THEN /\ signals' = Sent(signals, "connected")
                       /\ ctx' = "poll" /\ scmd' = "StatusReq"
                       /\ attempt' = 0
                  ELSE /\ signals' = Sent(Sent(signals, "connected"), "disconnected")
                       /\ ctx' = "reconnect" /\ attempt' <= 1
                       /\ pc' \in {"rc_disc", "cn_open"}
       /\ ~ReconnectReturns =>
               signals' \in {signals, Sent(signals, "disconnected")}
       /\ (RECONNECT_MAX_ATTEMPTS = 0 /\ RunLeft) => ReconnectReturns]_vars

\* the second attempt of a run connected after the first had failed and the
\* backoff had been waited: connected is the last signal, and the task
\* polls
C32_Witness ==
    /\ clast # <<>> /\ clast[1].attempt = 2 /\ clast[1].result = "ok"
    /\ signals # <<>> /\ signals[Len(signals)] = "connected"
    /\ ctx = "poll" /\ attempt = 0

\* the task begins an async_connect in this step
ConnectBegins == pc' = "cn_open" /\ (pc # "cn_open" \/ attempt' # attempt)

\* the task issues a write_gatt_char in this step
SupWriteBegins == "sup" \in inflight' /\ "sup" \notin inflight

\* C33: when async_unload_entry closes the transport, the background task
\* has been cancelled already, whether it was polling, connecting or in a
\* backoff wait; and once the transport is closed by the unload, the task
\* begins no async_connect and issues no write.
C33_CancelledBeforeClose ==
    [][/\ (upc = "ul_disc" /\ upc' = "unloaded") => pc = "cancelled"
       /\ upc = "unloaded" => ~ConnectBegins /\ ~SupWriteBegins]_vars

\* C34: the signals the task sends alternate, connected first: the first
\* signal is connected, and no signal is followed by the same signal.
C34_SignalsAlternate ==
    /\ Len(signals) >= 1 => signals[1] = "connected" \/ Len(signals) = SignalWindow
    /\ \A i \in 1..(Len(signals) - 1) : signals[i] # signals[i + 1]

\* the task polls a link that reports connected and has been silent for
\* notification_timeout or longer, and the clock lets its sleep end
StalePolling ==
    /\ ctx = "poll" /\ connected
    /\ now - last_notification_time >= cfg.notification_timeout
    /\ pc = "lp_sleep" => wake <= MaxBackoffTime

\* the task polls a link that reports connected, and the clock reaches the
\* first iteration after notification_timeout
SilentPolling ==
    /\ ctx = "poll" /\ connected
    /\ last_notification_time + cfg.notification_timeout
           + cfg.status_update_interval <= MaxBackoffTime

\* the task has sent disconnected and is in connect-with-retry
ReconnectingAfterSignal ==
    /\ ctx = "reconnect"
    /\ signals # <<>> /\ signals[Len(signals)] = "disconnected"

\* C35: on a link that keeps reporting connected and on which no
\* notification arrives, a fairly scheduled task that polls sends the
\* disconnected signal and enters connect-with-retry: once the silence has
\* lasted notification_timeout, at the end of the sleep it is in; and from
\* any poll before that, as soon as the silence has lasted that long.
C35_SilentLinkReconnected ==
    /\ StalePolling ~> ReconnectingAfterSignal
    /\ SilentPolling ~> ReconnectingAfterSignal

\* the link was up and silent for notification_timeout at the end of a
\* sleep: the task has sent disconnected after polls that had returned, and
\* is disconnecting to connect again
C35_Witness ==
    /\ ReconnectingAfterSignal /\ pc = "rc_disc" /\ connected
    /\ nlast = <<>>
    /\ now - last_notification_time >= cfg.notification_timeout
    /\ oplast = <<[op |-> "get_status", exc |-> "none", msg |-> ""]>>

---------------------------------------------------------------------------
(* Properties of the write path under interleaving and under failure.       *)

\* a write_gatt_char is issued in this step, by the task or by a service call
WriteIssued == inflight' \ inflight # {}

\* C36: write_gatt_char is only issued while the transport is connected,
\* also by a command that passed the test of is_connected and then waited
\* for the lock: the write it issues records a link that is up.
C36_WriteOnlyConnected ==
    [][WriteIssued => connected /\ wlast'[1].link]_vars

\* async_get_status ends with an exception in this step: at one of its
\* writes, or at the test of is_connected after one of its sleeps
GetStatusRaises ==
    /\ pc \in {"w_write", "gs_sleep1", "gs_sleep2"}
    /\ pc' \notin {"w_write", "w_lock", "gs_sleep1", "gs_sleep2"}
    /\ oplast' # <<>> /\ oplast'[1].exc # "none"

====
